---- MODULE Spec2Model ----
(***************************************************************************)
(* DocumentService (rust/src/doc/document_service.rs): a handle that owns  *)
(* one yrs document holding a Root map with a Blocks map and a Meta map.   *)
(*                                                                         *)
(* The replicated container store (yrs) is modelled at the level of its    *)
(* items: every insertion creates an item <<client, clock>> with a parent  *)
(* container, a map key (or none, for a sequence element) and a left       *)
(* origin; a deletion records the item's id in the delete set.  The value  *)
(* of a map key is the right-most item of the key's chain when that item   *)
(* is not deleted; a sequence reads its items in YATA order.  An update    *)
(* is a set of items plus a delete set; an item integrates only when the   *)
(* items it depends on are integrated, and waits as pending otherwise.     *)
(***************************************************************************)
EXTENDS Integers, Sequences, FiniteSets, TLC

VARIABLES
    doc,     \* handle -> the yrs Doc the handle owns (field DocumentService.doc)
    last,    \* the call that ran last: its operation, arguments, result, the Doc before it
    wire,    \* the update blobs calls have returned to the host so far
    hist     \* per handle: what kinds of call it has served (history, read by the claims only)

vars == <<doc, last, wire, hist>>

(***************************************************************************)
(* Bounds of the model.                                                    *)
(***************************************************************************)
MaxClients == 4        \* distinct client ids Doc::new() may draw
MaxCalls == 3          \* calls per behaviour of Spec
MaxTreeCalls == 2      \* calls per behaviour of SpecTree
MaxSyncCalls == 5      \* calls per behaviour of SpecSync
MaxReplaceCalls == 4   \* calls per behaviour of SpecReplace

Handles == {"A", "B"}
ClientIds == 1..MaxClients

(***************************************************************************)
(* crate::doc::constants (imported at line 9): the names of the root map's *)
(* entries and the parent of a top-level block.                            *)
(***************************************************************************)
BLOCKS == "blocks"
META == "meta"
DEFAULT_PARENT == "root"

(***************************************************************************)
(* JSON values (serde_json::Value).  A number keeps serde_json's three     *)
(* representations: PosInt (u64), NegInt (i64) and Float (f64).            *)
(***************************************************************************)
JNull == [t |-> "Null", v |-> "-"]
JBool(b) == [t |-> "Bool", v |-> b]
JNumber(n) == [t |-> "Number", v |-> n]
JString(s) == [t |-> "String", v |-> s]
JArray(items) == [t |-> "Array", v |-> items]
JObject(entries) == [t |-> "Object", v |-> entries]   \* <<key, value>> pairs in iteration order

PosInt(n, overI64) == [repr |-> "PosInt", int |-> n, frac |-> 0, overI64 |-> overI64]
NegInt(n) == [repr |-> "NegInt", int |-> n, frac |-> 0, overI64 |-> FALSE]
Float(n, frac, overI64) == [repr |-> "Float", int |-> n, frac |-> frac, overI64 |-> overI64]

\* Number::as_i64: Some for NegInt, and for PosInt up to i64::MAX
AsI64(n) == IF n.repr = "NegInt" \/ (n.repr = "PosInt" /\ ~n.overI64) THEN <<n.int>> ELSE <<>>
\* Number::as_f64: always Some
AsF64(n) == <<Float(n.int, n.frac, n.overI64)>>

(***************************************************************************)
(* yrs values.  A stored value is a nested shared type (YMap, YArray) or   *)
(* an Any scalar.                                                          *)
(***************************************************************************)
YMap == [t |-> "ymap", v |-> "-"]
YArray == [t |-> "yarray", v |-> "-"]
AnyString(s) == [t |-> "string", v |-> s]
AnyBigInt(n) == [t |-> "bigint", v |-> n]
AnyNumber(f) == [t |-> "number", v |-> f]
AnyBool(b) == [t |-> "bool", v |-> b]
AnyNull == [t |-> "null", v |-> "-"]
AnyArray(values) == [t |-> "array", v |-> values]     \* Any::Array, a plain array
AnyMap(entries) == [t |-> "map", v |-> entries]       \* Any::Map, a plain map
AnyBuffer(bytes) == [t |-> "buffer", v |-> bytes]     \* Any::Buffer, binary
AnyTags == {"null", "undefined", "bool", "number", "bigint", "string", "array", "map",
            "buffer"}
YText == [t |-> "ytext", v |-> "-"]                  \* another shared type

NoId == <<0, 0>>       \* no left origin; as a parent: the root map of the document
NoKey == "-"           \* the key of a sequence element
NoItem == [id |-> NoId, parent |-> NoId, key |-> NoKey, origin |-> NoId,
           val |-> [t |-> "none", v |-> "-"]]

NewDoc(c) == [client |-> c, items |-> {}, ds |-> {}, pending |-> {}, pendingDs |-> {}]

UpdateV2(items, ds) == [valid |-> TRUE, items |-> items, ds |-> ds]
Garbage == [valid |-> FALSE, items |-> {}, ds |-> {}]   \* bytes that do not decode

(***************************************************************************)
(* The block store.                                                        *)
(***************************************************************************)
Ids(items) == {i.id : i \in items}
ItemById(items, id) == CHOOSE i \in items : i.id = id
Clock(items, c) == Cardinality({i \in items : i.id[1] = c})
StateVector(d) == [c \in ClientIds |-> Clock(d.items, c)]
EmptyStateVector == [c \in ClientIds |-> 0]
NewId(d) == <<d.client, Clock(d.items, d.client)>>

Chain(items, parent, key) == {i \in items : i.parent = parent /\ i.key = key}

\* YATA with no right origins: the children of an origin are ordered by client
\* id, each followed by its own subtree.
Less(i, j) == \/ i.id[1] < j.id[1]
              \/ i.id[1] = j.id[1] /\ i.id[2] <= j.id[2]

RECURSIVE Rightmost(_, _)
Rightmost(chain, o) ==
    LET ch == {i \in chain : i.origin = o}
    IN  IF ch = {} THEN o
        ELSE Rightmost(chain, (CHOOSE i \in ch : \A j \in ch : Less(j, i)).id)

RECURSIVE YataSeq(_, _)
YataSeq(chain, o) ==
    LET ch == {i \in chain : i.origin = o}
    IN  IF ch = {} THEN <<>>
        ELSE LET m == CHOOSE i \in ch : \A j \in ch : Less(i, j)
             IN  <<m>> \o YataSeq(chain \ {m}, m.id) \o YataSeq(chain \ {m}, o)

\* Deleting a shared type deletes what it holds; a map entry that is not the
\* right-most of its chain is deleted.
RECURSIVE DeleteClosure(_, _)
DeleteClosure(items, ds) ==
    LET more == {i.id : i \in {j \in items : j.id \notin ds /\
                     (\/ j.parent \in ds
                      \/ j.key # NoKey /\
                         Rightmost(Chain(items, j.parent, j.key), NoId) # j.id)}}
    IN  IF more = {} THEN ds ELSE DeleteClosure(items, ds \cup more)

Tidy(d) == [d EXCEPT !.ds = DeleteClosure(d.items, d.ds)]

\* Map::get
MapGet(d, parent, key) ==
    LET r == Rightmost(Chain(d.items, parent, key), NoId)
    IN  IF r = NoId \/ r \in d.ds THEN NoItem ELSE ItemById(d.items, r)

\* Map::keys
MapKeys(d, parent) ==
    {k \in {i.key : i \in {j \in d.items : j.parent = parent /\ j.key # NoKey}} :
        MapGet(d, parent, k) # NoItem}

\* Map::insert
MapInsert(d, parent, key, val) ==
    LET left == Rightmost(Chain(d.items, parent, key), NoId)
        it == [id |-> NewId(d), parent |-> parent, key |-> key, origin |-> left,
               val |-> val]
    IN  Tidy([d EXCEPT !.items = @ \cup {it}])

\* Map::remove
MapRemove(d, parent, key) ==
    LET cur == MapGet(d, parent, key)
    IN  IF cur = NoItem THEN d ELSE Tidy([d EXCEPT !.ds = @ \cup {cur.id}])

\* Array::iter
ArrayItems(d, arr) ==
    LET live(i) == i.id \notin d.ds
    IN  SelectSeq(YataSeq(Chain(d.items, arr, NoKey), NoId), live)

ArrayValues(d, arr) ==
    LET s == ArrayItems(d, arr) IN [n \in 1..Len(s) |-> s[n].val]

\* Array::push_back
ArrayPushBack(d, arr, val) ==
    LET left == Rightmost(Chain(d.items, arr, NoKey), NoId)
        it == [id |-> NewId(d), parent |-> arr, key |-> NoKey, origin |-> left,
               val |-> val]
    IN  [d EXCEPT !.items = @ \cup {it}]

\* Array::remove(index), index counted from 0
ArrayRemove(d, arr, index) ==
    LET s == ArrayItems(d, arr)
    IN  IF index + 1 \in 1..Len(s) THEN Tidy([d EXCEPT !.ds = @ \cup {s[index + 1].id}])
        ELSE d

(***************************************************************************)
(* Updates: encoding, integration, merge.                                  *)
(***************************************************************************)
\* TransactionMut::encode_diff_v2: the integrated items the state vector has
\* not seen, and the delete set of the integrated items.
EncodeDiffV2(d, sv) ==
    UpdateV2({i \in d.items : i.id[2] >= sv[i.id[1]]}, d.ds)

\* ReadTxn::encode_state_as_update_v2: as encode_diff_v2, plus the updates that
\* still wait for their dependencies.
EncodeStateAsUpdateV2(d, sv) ==
    UpdateV2({i \in d.items : i.id[2] >= sv[i.id[1]]} \cup d.pending,
             d.ds \cup d.pendingDs)

\* An item integrates when it is the next clock of its client and its origin
\* and parent are integrated.
RECURSIVE Integrate(_, _)
Integrate(items, cand) ==
    LET have == Ids(items) \cup {NoId}
        ready == {i \in cand : /\ i.id[2] = Clock(items, i.id[1])
                               /\ i.origin \in have
                               /\ i.parent \in have}
    IN  IF ready = {} THEN items ELSE Integrate(items \cup ready, cand \ ready)

\* TransactionMut::apply_update
ApplyUpdate(d, u) ==
    LET cand == (d.pending \cup u.items) \ d.items
        items == Integrate(d.items, cand)
        allDs == d.ds \cup d.pendingDs \cup u.ds
        have == Ids(items)
    IN  Tidy([d EXCEPT !.items = items, !.pending = cand \ items,
                       !.ds = allDs \cap have, !.pendingDs = allDs \ have])

\* yrs::merge_updates_v2: one update holding what the listed updates hold.
MergeUpdatesV2(updates) ==
    UpdateV2(UNION {updates[n].items : n \in 1..Len(updates)},
             UNION {updates[n].ds : n \in 1..Len(updates)})

(***************************************************************************)
(* Results of a call: the Doc it leaves, and Ok(bytes) or Err(kind).       *)
(***************************************************************************)
Ok(d, bytes) == [doc |-> d, ok |-> TRUE, ret |-> <<bytes>>, err |-> "-"]
OkUnit(d) == [doc |-> d, ok |-> TRUE, ret |-> <<>>, err |-> "-"]
Err(d, e) == [doc |-> d, ok |-> FALSE, ret |-> <<>>, err |-> e]

(***************************************************************************)
(* crate::doc::utils::util::MapExt                                         *)
(***************************************************************************)
\* get_or_init_map: the map at key, created (over whatever the key held) when
\* the key holds no map.
GetOrInitMap(d, parent, key) ==
    LET cur == MapGet(d, parent, key)
    IN  IF cur.val = YMap THEN [doc |-> d, ref |-> cur.id]
        ELSE [doc |-> MapInsert(d, parent, key, YMap), ref |-> NewId(d)]

\* get_or_init_array
GetOrInitArray(d, parent, key) ==
    LET cur == MapGet(d, parent, key)
    IN  IF cur.val = YArray THEN [doc |-> d, ref |-> cur.id]
        ELSE [doc |-> MapInsert(d, parent, key, YArray), ref |-> NewId(d)]

(***************************************************************************)
(* DocumentService                                                         *)
(***************************************************************************)
Root == NoId     \* doc.get_or_insert_map(ROOT_ID): a root type, no item

\* init_empty_doc that returns the diff against the Doc's state vector before
\* the transaction instead of the full state.
InitEmptyDoc_DiffOnly(d) ==
    LET b == GetOrInitMap(d, Root, BLOCKS)
    IN  Ok(b.doc, EncodeDiffV2(b.doc, StateVector(b.doc)))

\* init_empty_doc (lines 33-53)
InitEmptyDoc(d) ==
    LET b == GetOrInitMap(d, Root, BLOCKS)
    IN  Ok(b.doc, EncodeStateAsUpdateV2(b.doc, EmptyStateVector))

\* encode_full_state that encodes against the Doc's own state vector.
EncodeFullState_OwnState(d) == Ok(d, EncodeStateAsUpdateV2(d, StateVector(d)))

\* encode_full_state (lines 59-65)
EncodeFullState(d) == Ok(d, EncodeStateAsUpdateV2(d, EmptyStateVector))

\* set_meta_string that encodes the whole state, as init_empty_doc does.
SetMetaString_FullState(d, key, value) ==
    LET meta == GetOrInitMap(d, Root, META)
        d2 == MapInsert(meta.doc, meta.ref, key, AnyString(value))
    IN  Ok(d2, EncodeStateAsUpdateV2(d2, EmptyStateVector))

\* set_meta_string (lines 224-238)
SetMetaString(d, key, value) ==
    LET meta == GetOrInitMap(d, Root, META)
        d2 == MapInsert(meta.doc, meta.ref, key, AnyString(value))
    IN  Ok(d2, EncodeDiffV2(d2, StateVector(d)))

\* remove_meta_key (lines 246-260)
RemoveMetaKey(d, key) ==
    LET meta == GetOrInitMap(d, Root, META)
        d2 == MapRemove(meta.doc, meta.ref, key)
    IN  Ok(d2, EncodeDiffV2(d2, StateVector(d)))

\* set_meta_int (lines 269-283)
SetMetaInt(d, key, value) ==
    LET meta == GetOrInitMap(d, Root, META)
        d2 == MapInsert(meta.doc, meta.ref, key, AnyBigInt(value))
    IN  Ok(d2, EncodeDiffV2(d2, StateVector(d)))

\* set_meta_bool (lines 292-306)
SetMetaBool(d, key, value) ==
    LET meta == GetOrInitMap(d, Root, META)
        d2 == MapInsert(meta.doc, meta.ref, key, AnyBool(value))
    IN  Ok(d2, EncodeDiffV2(d2, StateVector(d)))

\* for value in values { array.push_back(value) }
RECURSIVE PushAll(_, _, _, _)
PushAll(d, arr, values, n) ==
    IF n > Len(values) THEN d
    ELSE PushAll(ArrayPushBack(d, arr, AnyString(values[n])), arr, values, n + 1)

\* set_meta_string_array (lines 315-335)
SetMetaStringArray(d, key, values) ==
    LET meta == GetOrInitMap(d, Root, META)
        d1 == MapRemove(meta.doc, meta.ref, key)
        array == GetOrInitArray(d1, meta.ref, key)
        d2 == PushAll(array.doc, array.ref, values, 1)
    IN  Ok(d2, EncodeDiffV2(d2, StateVector(d)))

\* push_meta_array_item without the duplicate check
PushMetaArrayItem_NoCheck(d, key, value) ==
    LET meta == GetOrInitMap(d, Root, META)
        array == GetOrInitArray(meta.doc, meta.ref, key)
        d2 == ArrayPushBack(array.doc, array.ref, AnyString(value))
    IN  Ok(d2, EncodeDiffV2(d2, StateVector(d)))

\* push_meta_array_item whose duplicate check reads the last element only
PushMetaArrayItem_LastOnly(d, key, value) ==
    LET meta == GetOrInitMap(d, Root, META)
        array == GetOrInitArray(meta.doc, meta.ref, key)
        vals == ArrayValues(array.doc, array.ref)
        exists == Len(vals) > 0 /\ vals[Len(vals)] = AnyString(value)
        d2 == IF ~exists THEN ArrayPushBack(array.doc, array.ref, AnyString(value))
              ELSE array.doc
    IN  Ok(d2, EncodeDiffV2(d2, StateVector(d)))

\* push_meta_array_item that takes its array the way set_meta_string_array does:
\* meta.remove(key), then get_or_init_array.
PushMetaArrayItem_FreshArray(d, key, value) ==
    LET meta == GetOrInitMap(d, Root, META)
        array == GetOrInitArray(MapRemove(meta.doc, meta.ref, key), meta.ref, key)
        d2 == ArrayPushBack(array.doc, array.ref, AnyString(value))
    IN  Ok(d2, EncodeDiffV2(d2, StateVector(d)))

\* push_meta_array_item (lines 344-370)
PushMetaArrayItem(d, key, value) ==
    LET meta == GetOrInitMap(d, Root, META)
        array == GetOrInitArray(meta.doc, meta.ref, key)
        vals == ArrayValues(array.doc, array.ref)
        exists == \E n \in 1..Len(vals) : vals[n] = AnyString(value)
        d2 == IF ~exists THEN ArrayPushBack(array.doc, array.ref, AnyString(value))
              ELSE array.doc
    IN  Ok(d2, EncodeDiffV2(d2, StateVector(d)))

\* remove_meta_array_item that takes the position of the last match (rposition).
RemoveMetaArrayItem_LastMatch(d, key, value) ==
    LET meta == GetOrInitMap(d, Root, META)
        cur == MapGet(meta.doc, meta.ref, key)
        vals == ArrayValues(meta.doc, cur.id)
        hits == {n \in 1..Len(vals) : vals[n] = AnyString(value)}
        d2 == IF cur.val = YArray /\ hits # {}
              THEN ArrayRemove(meta.doc, cur.id, (CHOOSE n \in hits : \A m \in hits : n >= m) - 1)
              ELSE meta.doc
    IN  Ok(d2, EncodeDiffV2(d2, StateVector(d)))

\* remove_meta_array_item (lines 379-408)
RemoveMetaArrayItem(d, key, value) ==
    LET meta == GetOrInitMap(d, Root, META)
        cur == MapGet(meta.doc, meta.ref, key)
        vals == ArrayValues(meta.doc, cur.id)
        hits == {n \in 1..Len(vals) : vals[n] = AnyString(value)}
        d2 == IF cur.val = YArray /\ hits # {}
              THEN ArrayRemove(meta.doc, cur.id, (CHOOSE n \in hits : \A m \in hits : n <= m) - 1)
              ELSE meta.doc
    IN  Ok(d2, EncodeDiffV2(d2, StateVector(d)))

\* yrs_any_to_json that knows the scalars only: null for a plain array, a plain
\* map and a binary value.
YrsAnyToJson_ScalarsOnly(any) ==
    CASE any.t = "bool" -> JBool(any.v)
      [] any.t = "number" -> JNumber(any.v)
      [] any.t = "bigint" -> JNumber(IF any.v < 0 THEN NegInt(any.v) ELSE PosInt(any.v, FALSE))
      [] any.t = "string" -> JString(any.v)
      [] OTHER -> JNull

\* yrs_any_to_json (lines 461-487); an object is a function key -> JSON value
RECURSIVE YrsAnyToJson(_)
YrsAnyToJson(any) ==
    CASE any.t \in {"null", "undefined"} -> JNull
      [] any.t = "bool" -> JBool(any.v)
      [] any.t = "number" -> JNumber(any.v)
      [] any.t = "bigint" -> JNumber(IF any.v < 0 THEN NegInt(any.v) ELSE PosInt(any.v, FALSE))
      [] any.t = "string" -> JString(any.v)
      [] any.t = "array" -> JArray([n \in 1..Len(any.v) |-> YrsAnyToJson(any.v[n])])
      [] any.t = "map" -> JObject([k \in DOMAIN any.v |-> YrsAnyToJson(any.v[k])])
      [] any.t = "buffer" -> JArray([n \in 1..Len(any.v) |-> JNumber(PosInt(any.v[n], FALSE))])

\* yrs_value_to_json (lines 440-458)
RECURSIVE YrsValueToJson(_, _)
YrsValueToJson(d, item) ==
    CASE item.val = YArray ->
            LET s == ArrayItems(d, item.id)
            IN  JArray([n \in 1..Len(s) |-> YrsValueToJson(d, s[n])])
      [] item.val = YMap ->
            JObject([k \in MapKeys(d, item.id) |-> YrsValueToJson(d, MapGet(d, item.id, k))])
      [] item.val.t \in AnyTags -> YrsAnyToJson(item.val)
      [] OTHER -> JNull

\* get_all_meta (lines 416-437): the object as a function key -> JSON value
GetAllMetaJson(d) ==
    LET meta == MapGet(d, Root, META)
    IN  IF meta.val = YMap
        THEN [k \in MapKeys(d, meta.id) |-> YrsValueToJson(d, MapGet(d, meta.id, k))]
        ELSE [k \in {} |-> JNull]

\* get_all_meta that opens Meta the way the setters do (get_or_init_map in a
\* write transaction).
GetAllMeta_Init(d) ==
    LET meta == GetOrInitMap(d, Root, META)
    IN  Ok(meta.doc, GetAllMetaJson(meta.doc))

GetAllMeta(d) == Ok(d, GetAllMetaJson(d))

\* serde_json::to_string
RECURSIVE SerdeToString(_)
RECURSIVE SerdeJoin(_, _, _)
SerdeJoin(parts, n, sep) ==
    IF n > Len(parts) THEN ""
    ELSE (IF n > 1 THEN sep ELSE "") \o parts[n] \o SerdeJoin(parts, n + 1, sep)
SerdeToString(value) ==
    CASE value.t = "Null" -> "null"
      [] value.t = "Bool" -> IF value.v THEN "true" ELSE "false"
      [] value.t = "Number" ->
            IF value.v.repr = "Float"
            THEN ToString(value.v.int) \o "." \o ToString(value.v.frac)
            ELSE ToString(value.v.int)
      [] value.t = "String" -> "\"" \o value.v \o "\""
      [] value.t = "Array" ->
            "[" \o SerdeJoin([n \in 1..Len(value.v) |-> SerdeToString(value.v[n])], 1, ",")
                \o "]"
      [] value.t = "Object" ->
            "{" \o SerdeJoin([n \in 1..Len(value.v) |->
                        "\"" \o value.v[n][1] \o "\":" \o SerdeToString(value.v[n][2])], 1, ",")
                \o "}"

\* The loop of the array arm run from the last item to the first.
RECURSIVE PushStrings_Reversed(_, _, _, _)
PushStrings_Reversed(d, arr, items, n) ==
    IF n > Len(items) THEN d
    ELSE PushStrings_Reversed(IF items[Len(items) + 1 - n].t = "String"
                              THEN ArrayPushBack(d, arr, AnyString(items[Len(items) + 1 - n].v))
                              ELSE d,
                              arr, items, n + 1)

\* for item in arr { if let JsonValue::String(s) = item { array.push_back(s) } }
RECURSIVE PushStrings(_, _, _, _)
PushStrings(d, arr, items, n) ==
    IF n > Len(items) THEN d
    ELSE PushStrings(IF items[n].t = "String"
                     THEN ArrayPushBack(d, arr, AnyString(items[n].v)) ELSE d,
                     arr, items, n + 1)

\* The array arm without meta.remove: the strings are appended to the array the
\* key already holds.
SetMetaEntry_KeepArray(d, meta, key, value) ==
    CASE value.t = "Null" -> MapRemove(d, meta, key)
      [] value.t = "Bool" -> MapInsert(d, meta, key, AnyBool(value.v))
      [] value.t = "Number" ->
            IF AsI64(value.v) # <<>> THEN MapInsert(d, meta, key, AnyBigInt(AsI64(value.v)[1]))
            ELSE IF AsF64(value.v) # <<>> THEN MapInsert(d, meta, key, AnyNumber(AsF64(value.v)[1]))
            ELSE d
      [] value.t = "String" -> MapInsert(d, meta, key, AnyString(value.v))
      [] value.t = "Array" ->
            LET array == GetOrInitArray(d, meta, key)
            IN  PushStrings(array.doc, array.ref, value.v, 1)
      [] value.t = "Object" -> MapInsert(d, meta, key, AnyString(SerdeToString(value)))

\* The number arm without the as_f64 branch.
SetMetaEntry_IntOnly(d, meta, key, value) ==
    CASE value.t = "Null" -> MapRemove(d, meta, key)
      [] value.t = "Bool" -> MapInsert(d, meta, key, AnyBool(value.v))
      [] value.t = "Number" ->
            IF AsI64(value.v) # <<>> THEN MapInsert(d, meta, key, AnyBigInt(AsI64(value.v)[1]))
            ELSE d
      [] value.t = "String" -> MapInsert(d, meta, key, AnyString(value.v))
      [] value.t = "Array" ->
            LET array == GetOrInitArray(MapRemove(d, meta, key), meta, key)
            IN  PushStrings(array.doc, array.ref, value.v, 1)
      [] value.t = "Object" -> MapInsert(d, meta, key, AnyString(SerdeToString(value)))

\* one arm of the match of set_meta_from_json (lines 512-539)
SetMetaEntry(d, meta, key, value) ==
    CASE value.t = "Null" -> MapRemove(d, meta, key)
      [] value.t = "Bool" -> MapInsert(d, meta, key, AnyBool(value.v))
      [] value.t = "Number" ->
            IF AsI64(value.v) # <<>> THEN MapInsert(d, meta, key, AnyBigInt(AsI64(value.v)[1]))
            ELSE IF AsF64(value.v) # <<>> THEN MapInsert(d, meta, key, AnyNumber(AsF64(value.v)[1]))
            ELSE d
      [] value.t = "String" -> MapInsert(d, meta, key, AnyString(value.v))
      [] value.t = "Array" ->
            LET array == GetOrInitArray(MapRemove(d, meta, key), meta, key)
            IN  PushStrings(array.doc, array.ref, value.v, 1)
      [] value.t = "Object" -> MapInsert(d, meta, key, AnyString(SerdeToString(value)))

\* for (key, value) in obj
RECURSIVE SetMetaEntries(_, _, _, _)
SetMetaEntries(d, meta, entries, n) ==
    IF n > Len(entries) THEN d
    ELSE SetMetaEntries(SetMetaEntry(d, meta, entries[n][1], entries[n][2]), meta, entries, n + 1)

\* A json_str argument: text serde_json::from_str rejects, or the value it parses to.
BadJson == [parses |-> FALSE, json |-> JNull]
JsonText(value) == [parses |-> TRUE, json |-> value]

\* set_meta_from_json that opens the transaction and the Meta map before it
\* parses the text.
SetMetaFromJson_InitFirst(d, json_str) ==
    LET meta == GetOrInitMap(d, Root, META)
    IN  IF ~json_str.parses THEN Err(meta.doc, "EncodingError")
        ELSE IF json_str.json.t # "Object" THEN Err(meta.doc, "InvalidOperation")
        ELSE LET d2 == SetMetaEntries(meta.doc, meta.ref, json_str.json.v, 1)
             IN  Ok(d2, EncodeDiffV2(d2, StateVector(d)))

\* set_meta_from_json (lines 497-546)
SetMetaFromJson(d, json_str) ==
    IF ~json_str.parses THEN Err(d, "EncodingError")
    ELSE IF json_str.json.t # "Object" THEN Err(d, "InvalidOperation")
    ELSE LET meta == GetOrInitMap(d, Root, META)
             d2 == SetMetaEntries(meta.doc, meta.ref, json_str.json.v, 1)
         IN  Ok(d2, EncodeDiffV2(d2, StateVector(d)))

(***************************************************************************)
(* The state machine.  Every call runs to completion on its handle (the    *)
(* host serialises the calls on a handle, and a call touches no other).    *)
(***************************************************************************)
NoPrev == [op |-> "new", h |-> "A", arg |-> <<>>, before |-> NewDoc(2), ok |-> TRUE,
           ret |-> <<>>]
NoCall == [op |-> "new", h |-> "A", arg |-> <<>>, before |-> NewDoc(2), ok |-> TRUE,
           ret |-> <<>>, err |-> "-", prev |-> NoPrev]
\* What a call record keeps of the call before it.
Prev == [op |-> last.op, h |-> last.h, arg |-> last.arg, before |-> last.before,
         ok |-> last.ok, ret |-> last.ret]

Init ==
    /\ doc = [h \in Handles |-> NewDoc(IF h = "A" THEN 2 ELSE 3)]
    /\ last = NoCall
    /\ wire = {}
    /\ hist = [calls |-> 0,
               log |-> [h \in Handles |-> <<>>],
               failed |-> [h \in Handles |-> FALSE],
               replaced |-> [h \in Handles |-> FALSE]]

\* A call of a mutating operation: the handle's Doc and the call's result; the
\* bytes it returns reach the host.
Mutate(h, op, arg, r) ==
    /\ doc' = [doc EXCEPT ![h] = r.doc]
    /\ last' = [op |-> op, h |-> h, arg |-> arg, before |-> doc[h], ok |-> r.ok,
                ret |-> r.ret, err |-> r.err, prev |-> Prev]
    /\ wire' = IF r.ok THEN wire \cup {r.ret[1]} ELSE wire
    /\ hist' = [hist EXCEPT !.calls = @ + 1,
                            !.log[h] = IF r.ok THEN Append(@, r.ret[1]) ELSE @,
                            !.failed[h] = @ \/ ~r.ok]

\* A call of a read operation.
Read(h, op, r, bytes) ==
    /\ doc' = [doc EXCEPT ![h] = r.doc]
    /\ last' = [op |-> op, h |-> h, arg |-> <<>>, before |-> doc[h], ok |-> r.ok,
                ret |-> r.ret, err |-> r.err, prev |-> Prev]
    /\ wire' = IF bytes THEN wire \cup {r.ret[1]} ELSE wire
    /\ hist' = [hist EXCEPT !.calls = @ + 1]

init_empty_doc(h) == Mutate(h, "init_empty_doc", <<>>, InitEmptyDoc(doc[h]))
encode_full_state(h) == Read(h, "encode_full_state", EncodeFullState(doc[h]), TRUE)
get_all_meta(h) == Read(h, "get_all_meta", GetAllMeta(doc[h]), FALSE)
set_meta_string(h, key, value) ==
    Mutate(h, "set_meta_string", <<key, value>>, SetMetaString(doc[h], key, value))
remove_meta_key(h, key) ==
    Mutate(h, "remove_meta_key", <<key>>, RemoveMetaKey(doc[h], key))
set_meta_int(h, key, value) ==
    Mutate(h, "set_meta_int", <<key, value>>, SetMetaInt(doc[h], key, value))
set_meta_bool(h, key, value) ==
    Mutate(h, "set_meta_bool", <<key, value>>, SetMetaBool(doc[h], key, value))
set_meta_string_array(h, key, values) ==
    Mutate(h, "set_meta_string_array", <<key, values>>, SetMetaStringArray(doc[h], key, values))
push_meta_array_item(h, key, value) ==
    Mutate(h, "push_meta_array_item", <<key, value>>, PushMetaArrayItem(doc[h], key, value))
remove_meta_array_item(h, key, value) ==
    Mutate(h, "remove_meta_array_item", <<key, value>>, RemoveMetaArrayItem(doc[h], key, value))
set_meta_from_json(h, json_str) ==
    Mutate(h, "set_meta_from_json", <<json_str>>, SetMetaFromJson(doc[h], json_str))

(***************************************************************************)
(* super::operations::block_ops::BlockOperations.  A block is a map under  *)
(* Blocks[id] with the entries parent_id, prev_id, next_id and content; an *)
(* absent pointer is an absent entry.  An Option is <<>> or <<value>>.     *)
(***************************************************************************)
HasBlock(d, blocks, id) == MapGet(d, blocks, id).val = YMap
BlockIdsOf(d, blocks) == {k \in MapKeys(d, blocks) : HasBlock(d, blocks, k)}
NodeOf(d, blocks, id) == MapGet(d, blocks, id).id

Field(d, node, f) ==
    LET it == MapGet(d, node, f) IN IF it = NoItem THEN <<>> ELSE <<it.val.v>>

SetField(d, node, f, opt) ==
    IF opt = <<>> THEN MapRemove(d, node, f) ELSE MapInsert(d, node, f, AnyString(opt[1]))

BlockField(d, blocks, id, f) == Field(d, NodeOf(d, blocks, id), f)

\* Writes a pointer of block id when the block exists.
SetBlockField(d, blocks, id, f, opt) ==
    IF HasBlock(d, blocks, id) THEN SetField(d, NodeOf(d, blocks, id), f, opt) ELSE d

\* The children of a parent: the walk along next_id from the child without prev_id.
RECURSIVE WalkChain(_, _, _, _)
WalkChain(d, blocks, id, n) ==
    IF n = 0 \/ ~HasBlock(d, blocks, id) THEN <<>>
    ELSE LET next == BlockField(d, blocks, id, "next_id")
         IN  <<id>> \o (IF next = <<>> THEN <<>> ELSE WalkChain(d, blocks, next[1], n - 1))

ChildrenOf(d, blocks, parent) ==
    LET heads == {b \in BlockIdsOf(d, blocks) :
                    /\ BlockField(d, blocks, b, "parent_id") = <<parent>>
                    /\ BlockField(d, blocks, b, "prev_id") = <<>>}
    IN  IF heads = {} THEN <<>>
        ELSE WalkChain(d, blocks, CHOOSE b \in heads : TRUE, Cardinality(BlockIdsOf(d, blocks)))

InSeq(s, x) == \E n \in 1..Len(s) : s[n] = x
OrDefault(opt, default) == IF opt = <<>> THEN default ELSE opt[1]

\* Splices block id into its parent's chain between prev and next.
Link(d, blocks, id, prev, next) ==
    LET d1 == SetBlockField(d, blocks, id, "prev_id", prev)
        d2 == SetBlockField(d1, blocks, id, "next_id", next)
        d3 == IF prev = <<>> THEN d2 ELSE SetBlockField(d2, blocks, prev[1], "next_id", <<id>>)
    IN  IF next = <<>> THEN d3 ELSE SetBlockField(d3, blocks, next[1], "prev_id", <<id>>)

\* Takes block id out of the chain of parent, re-linking its neighbours.
Unlink(d, blocks, id, parent) ==
    IF ~InSeq(ChildrenOf(d, blocks, parent), id) THEN d
    ELSE LET prev == BlockField(d, blocks, id, "prev_id")
             next == BlockField(d, blocks, id, "next_id")
             d1 == IF prev = <<>> THEN d ELSE SetBlockField(d, blocks, prev[1], "next_id", next)
         IN  IF next = <<>> THEN d1 ELSE SetBlockField(d1, blocks, next[1], "prev_id", prev)

\* The neighbours of ordinal position pos in the chain of parent.
PrevAt(d, blocks, parent, pos) ==
    LET c == ChildrenOf(d, blocks, parent)
        p == IF pos > Len(c) THEN Len(c) ELSE pos
    IN  IF p >= 1 THEN <<c[p]>> ELSE <<>>
NextAt(d, blocks, parent, pos) ==
    LET c == ChildrenOf(d, blocks, parent)
        p == IF pos > Len(c) THEN Len(c) ELSE pos
    IN  IF p < Len(c) THEN <<c[p + 1]>> ELSE <<>>

\* BlockOperations::insert_node
InsertNode(d, blocks, action) ==
    IF HasBlock(d, blocks, action.id) THEN Err(d, "InvalidOperation")
    ELSE LET parent == OrDefault(action.parent_id, DEFAULT_PARENT)
             prev == PrevAt(d, blocks, parent, action.path)
             next == NextAt(d, blocks, parent, action.path)
             node == NewId(d)
             d1 == MapInsert(d, blocks, action.id, YMap)
             d2 == MapInsert(d1, node, "parent_id", AnyString(parent))
             d3 == MapInsert(d2, node, "content", AnyString(action.content))
         IN  OkUnit(Link(d3, blocks, action.id, prev, next))

\* BlockOperations::update_node
UpdateNode(d, blocks, action) ==
    IF ~HasBlock(d, blocks, action.id) THEN Err(d, "InvalidOperation")
    ELSE OkUnit(MapInsert(d, NodeOf(d, blocks, action.id), "content", AnyString(action.content)))

\* BlockOperations::delete_node
DeleteNode(d, blocks, id, parent_id) ==
    OkUnit(MapRemove(Unlink(d, blocks, id, parent_id), blocks, id))

\* BlockOperations::move_block
\* (b), (c): d is the Doc with the block detached.
Attach(d, blocks, path, parent_id, id, prev_id, next_id) ==
    IF prev_id # <<>> \/ next_id # <<>>
    THEN SetBlockField(Link(d, blocks, id, prev_id, next_id), blocks, id, "parent_id", <<parent_id>>)
    ELSE SetBlockField(Link(d, blocks, id, PrevAt(d, blocks, parent_id, path),
                            NextAt(d, blocks, parent_id, path)),
                       blocks, id, "parent_id", <<parent_id>>)
MoveBlock(d, blocks, old_path, path, parent_id, old_parent_id, id, prev_id, next_id) ==
    IF ~HasBlock(d, blocks, id) THEN OkUnit(d)
    ELSE OkUnit(Attach(Unlink(d, blocks, id, old_parent_id), blocks, path, parent_id, id,
                       prev_id, next_id))

(***************************************************************************)
(* DocumentService::apply_action (lines 70-121).  A BlockActionDoc is      *)
(* [action, id, parent_id, old_parent_id, prev_id, next_id, path,          *)
(*  old_path, content].                                                    *)
(***************************************************************************)
\* The match with a Move arm that asks for parent_id alone and takes the old
\* position to be the first top-level one when it is not given.
ApplyOneAction_LaxMove(d, blocks, action) ==
    CASE action.action = "Insert" -> InsertNode(d, blocks, action)
      [] action.action = "Update" -> UpdateNode(d, blocks, action)
      [] action.action = "Delete" ->
            DeleteNode(d, blocks, action.id, OrDefault(action.parent_id, DEFAULT_PARENT))
      [] action.action = "Move" ->
            IF action.parent_id # <<>>
            THEN MoveBlock(d, blocks, OrDefault(action.old_path, 0), action.path,
                           action.parent_id[1], OrDefault(action.old_parent_id, DEFAULT_PARENT),
                           action.id, action.prev_id, action.next_id)
            ELSE Err(d, "InvalidOperation")

\* The match on action.action (lines 87-112), on the Doc the transaction has reached.
ApplyOneAction(d, blocks, action) ==
    CASE action.action = "Insert" -> InsertNode(d, blocks, action)
      [] action.action = "Update" -> UpdateNode(d, blocks, action)
      [] action.action = "Delete" ->
            DeleteNode(d, blocks, action.id, OrDefault(action.parent_id, DEFAULT_PARENT))
      [] action.action = "Move" ->
            IF action.old_path # <<>> /\ action.parent_id # <<>> /\ action.old_parent_id # <<>>
            THEN MoveBlock(d, blocks, action.old_path[1], action.path, action.parent_id[1],
                           action.old_parent_id[1], action.id, action.prev_id, action.next_id)
            ELSE Err(d, "InvalidOperation")

\* for action in actions (lines 83-113): stops at the first error, keeping what
\* the transaction has written.
RECURSIVE ApplyActions(_, _, _)
\* One turn of the loop: blocks_map (line 84) and the match.
ApplyNth(blocks_map, action) == ApplyOneAction(blocks_map.doc, blocks_map.ref, action)
\* The `?` on the result r of action n: the next action, or the error.
ThenTheRest(r, actions, n) == IF r.ok THEN ApplyActions(r.doc, actions, n + 1) ELSE r
\* The loop run from the last action of the batch to the first.
ApplyActions_Backwards(d, actions, n) ==
    IF n > Len(actions) THEN OkUnit(d)
    ELSE ThenTheRest(ApplyNth(GetOrInitMap(d, Root, BLOCKS), actions[Len(actions) + 1 - n]),
                     actions, n)

ApplyActions(d, actions, n) ==
    IF n > Len(actions) THEN OkUnit(d)
    ELSE ThenTheRest(ApplyNth(GetOrInitMap(d, Root, BLOCKS), actions[n]), actions, n)

\* Lines 115-120 on the result r of the loop: the diff against before_state (the
\* state vector of d, lines 74-75).
DiffSince(d, r) == IF r.ok THEN Ok(r.doc, EncodeDiffV2(r.doc, StateVector(d))) ELSE r
\* The same with the transaction's writes given up on an error.
DiffSince_Rollback(d, r) ==
    IF r.ok THEN Ok(r.doc, EncodeDiffV2(r.doc, StateVector(d))) ELSE Err(d, r.err)
\* The same with the state vector read after the transaction.
DiffSince_After(d, r) == IF r.ok THEN Ok(r.doc, EncodeDiffV2(r.doc, StateVector(r.doc))) ELSE r

\* apply_action that gives up what the transaction wrote when an action fails.
ApplyAction_Rollback(d, actions) == DiffSince_Rollback(d, ApplyActions(d, actions, 1))

\* apply_action that reads the state vector after the transaction.
ApplyAction_DiffAfter(d, actions) == DiffSince_After(d, ApplyActions(d, actions, 1))

\* apply_action (lines 70-121)
ApplyAction(d, actions) == DiffSince(d, ApplyActions(d, actions, 1))

apply_action(h, actions) == Mutate(h, "apply_action", <<actions>>, ApplyAction(doc[h], actions))

\* The block tree a handle shows: id -> parent_id, prev_id, next_id, content.
BlockTree(d) ==
    LET b == MapGet(d, Root, BLOCKS)
        ids == IF b.val = YMap THEN BlockIdsOf(d, b.id) ELSE {}
    IN  [id \in ids |-> [parent_id |-> BlockField(d, b.id, id, "parent_id"),
                         prev_id |-> BlockField(d, b.id, id, "prev_id"),
                         next_id |-> BlockField(d, b.id, id, "next_id"),
                         content |-> BlockField(d, b.id, id, "content")]]

\* get_document_state (lines 163-175): the block tree and the metadata
DocumentState(d) == [blocks |-> BlockTree(d), meta |-> GetAllMetaJson(d)]
GetDocumentState(d) == Ok(d, DocumentState(d))
get_document_state(h) == Read(h, "get_document_state", GetDocumentState(doc[h]), FALSE)

(***************************************************************************)
(* The tree specification: one handle, init_empty_doc and apply_action.    *)
(***************************************************************************)
None == <<>>
Some(x) == <<x>>
Insert(id, parent_id, path) ==
    [action |-> "Insert", id |-> id, parent_id |-> parent_id, old_parent_id |-> None,
     prev_id |-> None, next_id |-> None, path |-> path, old_path |-> None, content |-> "c1"]
UpdateAct(id) ==
    [action |-> "Update", id |-> id, parent_id |-> None, old_parent_id |-> None,
     prev_id |-> None, next_id |-> None, path |-> 0, old_path |-> None, content |-> "c2"]
Delete(id, parent_id) ==
    [action |-> "Delete", id |-> id, parent_id |-> parent_id, old_parent_id |-> None,
     prev_id |-> None, next_id |-> None, path |-> 0, old_path |-> None, content |-> "c1"]
Move(id, old_parent_id, parent_id, old_path, path, prev_id, next_id) ==
    [action |-> "Move", id |-> id, parent_id |-> parent_id, old_parent_id |-> old_parent_id,
     prev_id |-> prev_id, next_id |-> next_id, path |-> path, old_path |-> old_path,
     content |-> "c1"]

TreeActions ==
    {Insert("X", None, 0), Insert("Y", None, 0), Insert("Y", None, 1), Insert("Y", Some("X"), 0),
     UpdateAct("X"),
     Delete("X", None), Delete("Y", Some("X")),
     Move("Y", Some(DEFAULT_PARENT), Some("X"), Some(0), 0, None, None),
     Move("Y", Some(DEFAULT_PARENT), Some(DEFAULT_PARENT), Some(1), 0, None, Some("X")),
     Move("X", Some(DEFAULT_PARENT), Some("Y"), Some(0), 0, None, None),
     Move("Y", None, Some("X"), Some(0), 0, None, None),
     Move("Y", Some(DEFAULT_PARENT), None, Some(0), 0, None, None),
     Move("Y", Some(DEFAULT_PARENT), Some("X"), None, 0, None, None)}

\* The batches: none, every action alone, and every pair that starts with an
\* insertion, an update or an incomplete Move.
TreeBatches ==
    {<<>>} \cup {<<a>> : a \in TreeActions}
    \cup {<<a, b>> : a \in {Insert("X", None, 0), Insert("Y", None, 0), UpdateAct("X"),
                           Move("Y", None, Some("X"), Some(0), 0, None, None)},
                     b \in TreeActions}

(***************************************************************************)
(* Synchronisation: apply_updates and merge_updates.                       *)
(***************************************************************************)
\* super::operations::update_ops::UpdateOperations::apply_updates_inner: decodes
\* and applies the updates in order; fails at the first that does not decode.
RECURSIVE ApplyUpdatesInner(_, _, _)
ApplyUpdatesInner(d, updates, n) ==
    IF n > Len(updates) THEN OkUnit(d)
    ELSE IF ~updates[n].valid THEN Err(d, "DecodeUpdateFailure")
    ELSE ApplyUpdatesInner(ApplyUpdate(d, updates[n]), updates, n + 1)

\* apply_updates that applies the updates to the Doc the handle holds.
ApplyUpdates_OntoOld(d, new_doc, updates) ==
    LET result == ApplyUpdatesInner(d, updates, 1)
    IN  IF result.ok THEN OkUnit(result.doc) ELSE Err(d, result.err)

\* apply_updates that replaces self.doc before it looks at the result.
ApplyUpdates_SwapFirst(d, new_doc, updates) ==
    LET result == ApplyUpdatesInner(new_doc, updates, 1)
    IN  IF result.ok THEN OkUnit(result.doc) ELSE Err(result.doc, result.err)

\* apply_updates (lines 126-158); new_doc is the Doc that Doc::new() made
ApplyUpdates(d, new_doc, updates) ==
    LET result == ApplyUpdatesInner(new_doc, updates, 1)
    IN  IF result.ok THEN OkUnit(result.doc) ELSE Err(d, result.err)

\* merge_updates that returns the first update of the list.
MergeUpdates_FirstOnly(d, updates) ==
    IF \E n \in 1..Len(updates) : ~updates[n].valid THEN Err(d, "EncodingError")
    ELSE Ok(d, updates[1])

\* merge_updates that merges the handle's own document in with the list.
MergeUpdates_WithOwn(d, updates) ==
    IF \E n \in 1..Len(updates) : ~updates[n].valid THEN Err(d, "EncodingError")
    ELSE Ok(d, MergeUpdatesV2(Append(updates, EncodeStateAsUpdateV2(d, EmptyStateVector))))

\* merge_updates (lines 178-191)
MergeUpdates(d, updates) ==
    IF \E n \in 1..Len(updates) : ~updates[n].valid THEN Err(d, "EncodingError")
    ELSE Ok(d, MergeUpdatesV2(updates))

\* Doc::new() draws a random client id: any id no Doc and no update in
\* existence carries.
ClientsOf(items) == {i.id[1] : i \in items}
ClientsInUse ==
    {doc[h].client : h \in Handles}
    \cup UNION {ClientsOf(doc[h].items \cup doc[h].pending) : h \in Handles}
    \cup UNION {ClientsOf(u.items) : u \in wire}
FreshClients == ClientIds \ ClientsInUse

apply_updates(h, updates) ==
    \E c \in FreshClients :
        LET r == ApplyUpdates(doc[h], NewDoc(c), updates)
        IN  /\ doc' = [doc EXCEPT ![h] = r.doc]
            /\ last' = [op |-> "apply_updates", h |-> h, arg |-> <<updates>>,
                        before |-> doc[h], ok |-> r.ok, ret |-> r.ret, err |-> r.err,
                        prev |-> Prev]
            /\ wire' = wire
            /\ hist' = [hist EXCEPT !.calls = @ + 1,
                                    !.log[h] = IF r.ok THEN <<>> ELSE @,
                                    !.replaced[h] = @ \/ r.ok]

merge_updates(h, updates) ==
    LET r == MergeUpdates(doc[h], updates)
    IN  /\ doc' = [doc EXCEPT ![h] = r.doc]
        /\ last' = [op |-> "merge_updates", h |-> h, arg |-> <<updates>>,
                    before |-> doc[h], ok |-> r.ok, ret |-> r.ret, err |-> r.err,
                    prev |-> Prev]
        /\ wire' = IF r.ok THEN wire \cup {r.ret[1]} ELSE wire
        /\ hist' = [hist EXCEPT !.calls = @ + 1]

(***************************************************************************)
(* Spec: one handle, every operation that works on the handle's own Doc.   *)
(***************************************************************************)
Keys == {"k"}
Strs == {"a", "b"}
StrArrays == {<<>>, <<"a">>, <<"a", "b">>, <<"a", "a">>}
JsonTexts ==
    {BadJson, JsonText(JString("a")),
     JsonText(JObject(<<<<"k", JNull>>>>)),
     JsonText(JObject(<<<<"k", JArray(<<JString("a"), JNumber(PosInt(1, FALSE)), JString("a")>>)>>>>)),
     JsonText(JObject(<<<<"k", JObject(<<<<"n", JBool(TRUE)>>>>)>>>>)),
     JsonText(JObject(<<<<"k", JNumber(Float(1, 0, FALSE))>>, <<"t", JString("b")>>>>))}
FewBatches ==
    {<<Insert("X", None, 0)>>, <<Insert("Y", None, 0), UpdateAct("Y")>>,
     <<Delete("X", None)>>, <<UpdateAct("X")>>}

Next ==
    /\ hist.calls < MaxCalls
    /\ \/ init_empty_doc("A")
       \/ encode_full_state("A")
       \/ get_all_meta("A")
       \/ get_document_state("A")
       \/ \E actions \in FewBatches : apply_action("A", actions)
       \/ \E key \in Keys, value \in Strs : set_meta_string("A", key, value)
       \/ \E key \in Keys : remove_meta_key("A", key)
       \/ \E key \in Keys : set_meta_int("A", key, 7)
       \/ \E key \in Keys : set_meta_bool("A", key, TRUE)
       \/ \E key \in Keys, values \in StrArrays : set_meta_string_array("A", key, values)
       \/ \E key \in Keys, value \in Strs : push_meta_array_item("A", key, value)
       \/ \E key \in Keys, value \in Strs : remove_meta_array_item("A", key, value)
       \/ \E json_str \in JsonTexts : set_meta_from_json("A", json_str)

Spec == Init /\ [][Next]_vars

(***************************************************************************)
(* SpecTree: one handle, init_empty_doc and apply_action.                  *)
(***************************************************************************)
NextTree ==
    /\ hist.calls < MaxTreeCalls
    /\ \/ init_empty_doc("A")
       \/ get_document_state("A")
       \/ \E actions \in TreeBatches : apply_action("A", actions)

SpecTree == Init /\ [][NextTree]_vars

(***************************************************************************)
(* SpecHost: SpecTree with a host that describes the tree as it is: the    *)
(* parent it names for a Delete and the old parent it names for a Move are *)
(* the block's parent, and the neighbours it names are other blocks of the *)
(* tree, at the point of the batch the action is applied at.               *)
(***************************************************************************)
AsTheTreeIs(t, a) ==
    /\ (a.action = "Delete" /\ a.id \in DOMAIN t) =>
            t[a.id].parent_id = <<OrDefault(a.parent_id, DEFAULT_PARENT)>>
    /\ (a.action = "Move" /\ a.id \in DOMAIN t /\ a.old_parent_id # <<>>) =>
            t[a.id].parent_id = a.old_parent_id
    /\ \A f \in {"prev_id", "next_id"} :
            a[f] # <<>> => a[f][1] \in DOMAIN t \ {a.id}

HostBatch(d, actions) ==
    \A n \in 1..Len(actions) :
        AsTheTreeIs(BlockTree(ApplyActions(d, SubSeq(actions, 1, n - 1), 1).doc), actions[n])

NextHost ==
    /\ hist.calls < MaxTreeCalls
    /\ \/ init_empty_doc("A")
       \/ get_document_state("A")
       \/ \E actions \in TreeBatches :
            /\ HostBatch(doc["A"], actions)
            /\ apply_action("A", actions)

SpecHost == Init /\ [][NextHost]_vars

(***************************************************************************)
(* SpecSync: two replicas.  A edits and takes snapshots; B loads one of    *)
(* the updates A returned and edits concurrently.                          *)
(***************************************************************************)
NextSync ==
    /\ hist.calls < MaxSyncCalls
    /\ \/ encode_full_state("A")
       \/ set_meta_string("A", "k", "a")
       \/ push_meta_array_item("A", "k", "a")
       \/ remove_meta_key("A", "k")
       \/ apply_action("A", <<Insert("X", None, 0)>>)
       \/ \E u \in wire : apply_updates("B", <<u>>)
       \/ set_meta_string("B", "k", "b")
       \/ push_meta_array_item("B", "k", "b")
       \/ apply_action("B", <<Insert("Y", None, 0)>>)

SpecSync == Init /\ [][NextSync]_vars

(***************************************************************************)
(* SpecReplace: A edits and returns updates; B, which may hold edits of    *)
(* its own, is given lists of them (and bytes that do not decode).         *)
(***************************************************************************)
Inbox == wire \cup {Garbage}
UpdateLists ==
    {<<>>} \cup {<<u>> : u \in Inbox} \cup {p \in wire \X Inbox : p[1] # p[2]}

NextReplace ==
    /\ hist.calls < MaxReplaceCalls
    /\ \/ init_empty_doc("A")
       \/ encode_full_state("A")
       \/ set_meta_string("A", "k", "a")
       \/ apply_action("A", <<Insert("X", None, 0)>>)
       \/ set_meta_string("B", "k", "b")
       \/ \E updates \in UpdateLists : apply_updates("B", updates)

SpecReplace == Init /\ [][NextReplace]_vars

(***************************************************************************)
(* SpecMerge: A and B edit, and B is asked to merge lists of the updates   *)
(* the calls have returned so far (and bytes that do not decode).          *)
(***************************************************************************)
MaxMergeCalls == 4

MergeLists ==
    {<<u>> : u \in Inbox} \cup {p \in Inbox \X wire : p[1] # p[2]}
    \cup {p \in wire \X wire \X wire : p[1] # p[2] /\ p[1] # p[3] /\ p[2] # p[3]}

NextMerge ==
    /\ hist.calls < MaxMergeCalls
    /\ \/ encode_full_state("A")
       \/ set_meta_string("A", "k", "a")
       \/ apply_action("A", <<Insert("X", None, 0)>>)
       \/ set_meta_string("B", "k", "b")
       \/ \E updates \in MergeLists : merge_updates("B", updates)

SpecMerge == Init /\ [][NextMerge]_vars

(***************************************************************************)
(* SpecJson: one handle and the bulk setter.  A json_str is given by the   *)
(* value serde_json::from_str parses it to; the entries of an object are    *)
(* in the order serde_json::Map iterates them (by key).                    *)
(***************************************************************************)
MaxJsonCalls == 3

\* The object with the one entry key: value.
Obj1(key, value) == JsonText(JObject(<<<<key, value>>>>))

\* Numbers as written: 7, -7, 1.0, 1.5, and a whole number between i64::MAX and
\* u64::MAX (which serde_json keeps as u64).
JsonNumbers ==
    {PosInt(7, FALSE), NegInt(-7), Float(1, 0, FALSE), Float(1, 5, FALSE), PosInt(9, TRUE)}

JsonValues ==
    {JNull, JString("a"), JBool(TRUE)}
    \cup {JNumber(n) : n \in JsonNumbers}
    \cup {JArray(<<>>), JArray(<<JString("a"), JString("b")>>),
          JArray(<<JString("b"), JNumber(PosInt(1, FALSE)), JString("a"), JString("b")>>),
          JObject(<<<<"n", JBool(TRUE)>>, <<"s", JString("a")>>>>)}

JsonInputs ==
    {BadJson, JsonText(JString("a")), JsonText(JArray(<<JString("a")>>)),
     JsonText(JNumber(PosInt(7, FALSE))), JsonText(JObject(<<>>))}
    \cup {Obj1("k", v) : v \in JsonValues}
    \cup {JsonText(JObject(<<<<"k", JString("b")>>, <<"t", JArray(<<JString("a")>>)>>>>)),
          JsonText(JObject(<<<<"k", JNull>>, <<"t", JNumber(PosInt(7, FALSE))>>>>))}

NextJson ==
    /\ hist.calls < MaxJsonCalls
    /\ \/ init_empty_doc("A")
       \/ get_all_meta("A")
       \/ set_meta_string("A", "k", "a")
       \/ push_meta_array_item("A", "k", "a")
       \/ \E json_str \in JsonInputs : set_meta_from_json("A", json_str)

SpecJson == Init /\ [][NextJson]_vars

(***************************************************************************)
(* SpecForeign: another program writes Meta entries with yrs (values of    *)
(* shapes this service never stores) and its updates reach handle A        *)
(* through apply_updates, beside entries A writes itself.                  *)
(***************************************************************************)
MaxForeignCalls == 4   \* steps per behaviour of SpecForeign

\* The Doc of the other client once it has put value under key "k" of Meta.
ForeignMeta(value) ==
    LET meta == GetOrInitMap(NewDoc(1), Root, META)
    IN  MapInsert(meta.doc, meta.ref, "k", value)
\* ... and once it has nested a map {"n": "a", "m": [true]} under "k"
ForeignNestedMap ==
    LET meta == GetOrInitMap(NewDoc(1), Root, META)
        nested == GetOrInitMap(meta.doc, meta.ref, "k")
    IN  MapInsert(MapInsert(nested.doc, nested.ref, "n", AnyString("a")),
                  nested.ref, "m", AnyArray(<<AnyBool(TRUE)>>))
\* ... and once it has put an array ["a", 7] under "k"
ForeignMixedArray ==
    LET meta == GetOrInitMap(NewDoc(1), Root, META)
        array == GetOrInitArray(meta.doc, meta.ref, "k")
    IN  ArrayPushBack(ArrayPushBack(array.doc, array.ref, AnyString("a")),
                      array.ref, AnyBigInt(7))
ForeignValues ==
    {AnyNull, YText, AnyBuffer(<<1, 2>>),
     AnyArray(<<AnyString("a"), AnyBigInt(7)>>),
     AnyMap([k \in {"n"} |-> AnyBool(TRUE)])}
ForeignUpdates ==
    {EncodeStateAsUpdateV2(d, EmptyStateVector) :
        d \in {ForeignMeta(value) : value \in ForeignValues}
              \cup {ForeignNestedMap, ForeignMixedArray}}

\* The other client publishes an update.
foreign_update(u) ==
    /\ wire' = wire \cup {u}
    /\ hist' = [hist EXCEPT !.calls = @ + 1]
    /\ UNCHANGED <<doc, last>>

NextForeign ==
    /\ hist.calls < MaxForeignCalls
    /\ \/ \E u \in ForeignUpdates \ wire : foreign_update(u)
       \/ \E u \in wire : apply_updates("A", <<u>>)
       \/ get_all_meta("A")
       \/ set_meta_string("A", "t", "a")
       \/ set_meta_int("A", "t", 7)
       \/ set_meta_bool("A", "t", TRUE)
       \/ set_meta_string_array("A", "t", <<"a", "b">>)
       \/ set_meta_from_json("A", Obj1("t", JNumber(Float(1, 5, FALSE))))

SpecForeign == Init /\ [][NextForeign]_vars

(***************************************************************************)
(* SpecAfterFailure: one handle whose batches may fail after their first   *)
(* action, and the calls that follow.                                      *)
(***************************************************************************)
MaxAfterCalls == 4   \* calls per behaviour of SpecAfterFailure

\* A Move without old_parent_id: the action apply_action rejects itself.
RejectedMove == Move("X", Some(DEFAULT_PARENT), None, Some(0), 0, None, None)
AfterBatches ==
    {<<Insert("X", None, 0)>>,
     <<Insert("X", None, 0), RejectedMove>>,
     <<Insert("Y", None, 0), UpdateAct("Y"), RejectedMove>>,
     <<RejectedMove>>,
     <<UpdateAct("X")>>,
     <<Delete("X", None)>>}

NextAfterFailure ==
    /\ hist.calls < MaxAfterCalls
    /\ \/ init_empty_doc("A")
       \/ encode_full_state("A")
       \/ set_meta_string("A", "k", "a")
       \/ push_meta_array_item("A", "k", "a")
       \/ remove_meta_key("A", "k")
       \/ \E actions \in AfterBatches : apply_action("A", actions)

SpecAfterFailure == Init /\ [][NextAfterFailure]_vars

(***************************************************************************)
(* SpecPush: two replicas that push to the array of one key, from an       *)
(* ancestor in which the key is absent or holds an array.                  *)
(***************************************************************************)
MaxPushCalls == 4   \* calls per behaviour of SpecPush

NextPush ==
    /\ hist.calls < MaxPushCalls
    /\ \/ set_meta_string_array("A", "k", <<"c">>)
       \/ set_meta_string("A", "t", "a")
       \/ push_meta_array_item("A", "k", "a")
       \/ push_meta_array_item("B", "k", "b")
       \/ \E u \in wire : apply_updates("B", <<u>>)

SpecPush == Init /\ [][NextPush]_vars

(***************************************************************************)
(* What the claims read.                                                   *)
(***************************************************************************)
\* The string arrays of Meta: key -> the sequence of values of the array at key.
MetaArrays(d) ==
    LET meta == MapGet(d, Root, META)
        ks == IF meta.val = YMap
              THEN {k \in MapKeys(d, meta.id) : MapGet(d, meta.id, k).val = YArray} ELSE {}
    IN  [k \in ks |-> ArrayValues(d, MapGet(d, meta.id, k).id)]

Occurrences(s, x) == Cardinality({n \in 1..Len(s) : s[n] = x})
DupFree(s) == \A m, n \in 1..Len(s) : m # n => s[m] # s[n]
MetaArraysDupFree(d) == \A k \in DOMAIN MetaArrays(d) : DupFree(MetaArrays(d)[k])
MetaArrayAt(d, k) == IF k \in DOMAIN MetaArrays(d) THEN MetaArrays(d)[k] ELSE <<>>

\* The string elements of a JSON array, as set_meta_from_json stores them.
JsonStrings(items) ==
    LET str(x) == x.t = "String" IN [n \in 1..Len(SelectSeq(items, str)) |-> SelectSeq(items, str)[n].v]

\* The last call was given no array with two equal strings.
ArrayInputsDupFree ==
    CASE last.op = "set_meta_string_array" -> DupFree(last.arg[2])
      [] last.op = "set_meta_from_json" /\ last.ok ->
            \A n \in 1..Len(last.arg[1].json.v) :
                last.arg[1].json.v[n][2].t = "Array" => DupFree(JsonStrings(last.arg[1].json.v[n][2].v))
      [] OTHER -> TRUE

\* C8 as stated: every array-valued Meta key holds no two equal string elements.
C8_NoDuplicateElements == \A h \in Handles : MetaArraysDupFree(doc[h])

\* C8 amended: a metadata operation that is given no array with two equal strings
\* leaves every array-valued Meta key without two equal strings when the handle
\* held none before the call (set_meta_string_array and set_meta_from_json store
\* the array they are given, duplicates included).
C8_DupFreePreserved ==
    (ArrayInputsDupFree /\ MetaArraysDupFree(last.before)) => MetaArraysDupFree(doc[last.h])

\* C8 witness: a push of a value the array already held, on an array of two elements.
C8_Witness ==
    /\ last.op = "push_meta_array_item"
    /\ Len(MetaArrayAt(last.before, last.arg[1])) = 2
    /\ Occurrences(MetaArrayAt(last.before, last.arg[1]), AnyString(last.arg[2])) = 1
    /\ MetaArraysDupFree(doc[last.h])

TwoPushesInARow ==
    /\ last.op = "push_meta_array_item"
    /\ last.prev.op = "push_meta_array_item"
    /\ last.prev.h = last.h
    /\ last.prev.arg = last.arg

\* C9 as stated: after push_meta_array_item(k, v) twice in a row, from any state,
\* the array at k holds v exactly once and the second call did not change it.
C9_PushTwiceOnce ==
    TwoPushesInARow =>
        /\ Occurrences(MetaArrayAt(doc[last.h], last.arg[1]), AnyString(last.arg[2])) = 1
        /\ MetaArrayAt(doc[last.h], last.arg[1]) = MetaArrayAt(last.before, last.arg[1])

\* C9 amended: after push_meta_array_item(k, v) twice in a row the second call did
\* not change the array at k, which holds v; it holds v exactly once when the
\* array held v at most once before the first call.
C9_PushTwiceAmended ==
    TwoPushesInARow =>
        /\ MetaArrayAt(doc[last.h], last.arg[1]) = MetaArrayAt(last.before, last.arg[1])
        /\ last.arg[1] \in DOMAIN MetaArrays(doc[last.h])
        /\ Occurrences(MetaArrayAt(doc[last.h], last.arg[1]), AnyString(last.arg[2])) >= 1
        /\ Occurrences(MetaArrayAt(last.prev.before, last.arg[1]), AnyString(last.arg[2])) <= 1
            => Occurrences(MetaArrayAt(doc[last.h], last.arg[1]), AnyString(last.arg[2])) = 1

\* C9 witness: two pushes in a row onto a key that was absent: the first created
\* the array, and it holds the value once.
C9_Witness ==
    /\ TwoPushesInARow
    /\ last.arg[1] \notin DOMAIN GetAllMetaJson(last.prev.before)
    /\ MetaArrayAt(doc[last.h], last.arg[1]) = <<AnyString(last.arg[2])>>

Mutating(op) ==
    op \in {"init_empty_doc", "apply_action", "set_meta_string", "set_meta_int",
            "set_meta_bool", "remove_meta_key", "set_meta_string_array",
            "push_meta_array_item", "remove_meta_array_item", "set_meta_from_json"}

\* A replica that only loads updates: it inserts nothing, so its client id
\* plays no part.
Replica == NewDoc(0)
\* What a handle shows after apply_updates(updates): <<>> when the call fails.
Loaded(updates) ==
    LET r == ApplyUpdates(Replica, Replica, updates)
    IN  IF r.ok THEN <<DocumentState(r.doc)>> ELSE <<>>
Snapshot(d) == EncodeFullState(d).ret[1]
SameContent(d, e) ==
    /\ d.items = e.items /\ d.ds = e.ds
    /\ d.pending = e.pending /\ d.pendingDs = e.pendingDs

\* The last two calls were successful mutating calls of two replicas that held
\* the same document.
ConcurrentPair ==
    /\ last.ok /\ Mutating(last.op)
    /\ last.prev.ok /\ Mutating(last.prev.op)
    /\ last.h # last.prev.h
    /\ SameContent(last.before, last.prev.before)

\* C1: for the snapshot S of the common ancestor and the diffs D1, D2 of two
\* concurrent mutating calls, apply_updates([S, D1, D2]), apply_updates([S, D2, D1])
\* and apply_updates([S, merge_updates([D1, D2])]) succeed and show the same
\* block tree and metadata.
C1_Convergence ==
    ConcurrentPair =>
        LET S == Snapshot(last.prev.before)
            D1 == last.prev.ret[1]
            D2 == last.ret[1]
            merged == MergeUpdates(Replica, <<D1, D2>>)
        IN  /\ merged.ok
            /\ Loaded(<<S, D1, D2>>) # <<>>
            /\ Loaded(<<S, D1, D2>>) = Loaded(<<S, D2, D1>>)
            /\ Loaded(<<S, D1, D2>>) = Loaded(<<S, merged.ret[1]>>)

\* C1 witness: both replicas loaded a non-empty ancestor and then set the same
\* key to different values.
C1_Witness ==
    /\ ConcurrentPair
    /\ last.before.items # {}
    /\ last.op = "set_meta_string" /\ last.prev.op = "set_meta_string"
    /\ last.arg # last.prev.arg
    /\ "k" \in DOMAIN Loaded(<<Snapshot(last.prev.before), last.prev.ret[1], last.ret[1]>>)[1].meta

\* The index of the action of a batch that fails on d (0: none does).
RECURSIVE FirstFailure(_, _, _)
FirstFailure(d, actions, n) ==
    IF n > Len(actions) THEN 0
    ELSE IF ~ApplyActions(d, SubSeq(actions, 1, n), 1).ok THEN n
    ELSE FirstFailure(d, actions, n + 1)

FailedBatch == last.op = "apply_action" /\ ~last.ok

\* C2: when action i of a batch fails, apply_action returns the error and no
\* diff, and the handle shows what actions 1..i-1 made of the document: their
\* mutations stay (also in encode_full_state), actions i.. have no effect.
C2_NoRollback ==
    FailedBatch =>
        LET i == FirstFailure(last.before, last.arg[1], 1)
            done == ApplyActions(last.before, SubSeq(last.arg[1], 1, i - 1), 1).doc
        IN  /\ last.ret = <<>>
            /\ last.err = "InvalidOperation"
            /\ i >= 1
            /\ DocumentState(doc[last.h]) = DocumentState(done)
            /\ done.items \subseteq Snapshot(doc[last.h]).items
            /\ Loaded(<<Snapshot(doc[last.h])>>) = <<DocumentState(done)>>

\* C2 witness: the second action of a batch failed and the block the first
\* action inserted is in the tree.
C2_Witness ==
    /\ FailedBatch
    /\ FirstFailure(last.before, last.arg[1], 1) = 2
    /\ last.arg[1][1].action = "Insert"
    /\ last.arg[1][1].id \notin DOMAIN BlockTree(last.before)
    /\ last.arg[1][1].id \in DOMAIN BlockTree(doc[last.h])

\* C3: a replica that holds the handle's state from before a successful mutating
\* call and applies the returned diff shows the handle's block tree and
\* metadata; so does a replica that applies, in order, every diff the handle
\* returned, as long as no call of the handle failed.
C3_DiffCoversCall ==
    /\ (last.ok /\ Mutating(last.op)) =>
            Loaded(<<Snapshot(last.before), last.ret[1]>>) = <<DocumentState(doc[last.h])>>
    /\ \A h \in Handles :
            (~hist.failed[h] /\ ~hist.replaced[h]) =>
                Loaded(hist.log[h]) = <<DocumentState(doc[h])>>

\* C3 witness: the third successful mutating call in a row changed both a block
\* and the metadata present before it.
C3_Witness ==
    /\ last.ok /\ Mutating(last.op)
    /\ Len(hist.log[last.h]) = 3
    /\ ~hist.failed[last.h]
    /\ DOMAIN BlockTree(doc[last.h]) # {}
    /\ DOMAIN GetAllMetaJson(doc[last.h]) # {}
    /\ DocumentState(doc[last.h]) # DocumentState(last.before)

LoadedOk == last.op = "apply_updates" /\ last.ok
LoadFailed == last.op = "apply_updates" /\ ~last.ok
ItemsIn(updates) == UNION {updates[n].items : n \in 1..Len(updates)}

\* C4: after a successful apply_updates(updates) the handle holds what applying
\* the updates in order to an empty document gives, and nothing else: no item
\* of the document it held before that the updates do not carry.
C4_FullReplace ==
    LoadedOk =>
        /\ <<DocumentState(doc[last.h])>> = Loaded(last.arg[1])
        /\ doc[last.h].items \cup doc[last.h].pending \subseteq ItemsIn(last.arg[1])
        /\ last.arg[1] = <<>> => DocumentState(doc[last.h]) = DocumentState(Replica)

\* C4 witness: the handle held metadata of its own and loaded a non-empty document
\* that does not have it.
C4_Witness ==
    /\ LoadedOk
    /\ DOMAIN GetAllMetaJson(last.before) # {}
    /\ ~(last.before.items \subseteq doc[last.h].items)
    /\ doc[last.h].items # {}

\* C5: a failed apply_updates leaves the handle's document as it was.
C5_FailedLoadKeepsDoc ==
    LoadFailed => /\ doc[last.h] = last.before
                  /\ last.err = "DecodeUpdateFailure"

\* C5 witness: the list started with an update that applies and changes the
\* document, the next one did not decode, and the handle held a document.
C5_Witness ==
    /\ LoadFailed
    /\ Len(last.arg[1]) = 2
    /\ last.arg[1][1].valid
    /\ Loaded(<<last.arg[1][1]>>) # <<DocumentState(last.before)>>
    /\ last.before.items # {}

\* Handle A has served only successful mutating calls and reads.
OnlyEdited(h) == ~hist.failed[h] /\ ~hist.replaced[h]

\* C6: when B, as constructed, loads the snapshot encode_full_state returns for
\* the document A holds, B shows A's block tree and metadata.
C6_SnapshotRoundTrip ==
    (/\ LoadedOk /\ last.h = "B" /\ last.before = NewDoc(3)
     /\ OnlyEdited("A")
     /\ last.arg[1] = <<Snapshot(doc["A"])>>)
        => DocumentState(doc["B"]) = DocumentState(doc["A"])

\* C6 witness: such a load of a document with a block and a metadata entry.
C6_Witness ==
    /\ LoadedOk /\ last.h = "B" /\ last.before = NewDoc(3)
    /\ OnlyEdited("A")
    /\ last.arg[1] = <<Snapshot(doc["A"])>>
    /\ DOMAIN BlockTree(doc["B"]) # {}
    /\ DOMAIN GetAllMetaJson(doc["B"]) # {}

\* The blocks reached from b by following pointer f at least once.
RECURSIVE Follow(_, _, _, _)
Follow(t, f, b, n) ==
    IF n = 0 \/ b \notin DOMAIN t \/ t[b][f] = <<>> THEN {}
    ELSE {t[b][f][1]} \cup Follow(t, f, t[b][f][1], n - 1)

NoParentCycle(t) ==
    \A b \in DOMAIN t : b \notin Follow(t, "parent_id", b, Cardinality(DOMAIN t))
NextMatchedByPrev(t) ==
    \A b \in DOMAIN t :
        t[b].next_id # <<>> =>
            /\ t[b].next_id[1] \in DOMAIN t
            /\ t[t[b].next_id[1]].prev_id = <<b>>
NoneTwiceInChain(t) ==
    /\ \A b \in DOMAIN t : b \notin Follow(t, "next_id", b, Cardinality(DOMAIN t))
    /\ \A b, c \in DOMAIN t : (b # c /\ t[b].next_id # <<>>) => t[b].next_id # t[c].next_id

\* C7: after any sequence of apply_action calls, successful or failed, no block
\* is its own ancestor along parent_id, every next_id link is matched by the
\* reverse prev_id link, and no block is twice in a sibling chain.
C7_TreeIntegrity ==
    \A h \in Handles :
        /\ NoParentCycle(BlockTree(doc[h]))
        /\ NextMatchedByPrev(BlockTree(doc[h]))
        /\ NoneTwiceInChain(BlockTree(doc[h]))

\* The keys of the root map with what they hold.
RootEntries(d) == [k \in MapKeys(d, Root) |-> MapGet(d, Root, k).val]
IsEmptyMapAt(d, key) ==
    /\ MapGet(d, Root, key).val = YMap
    /\ MapKeys(d, MapGet(d, Root, key).id) = {}
FirstInit == last.op = "init_empty_doc" /\ last.ok /\ last.before = NewDoc(2)

\* C10: init_empty_doc on a handle as constructed leaves a document whose
\* Blocks map and Meta map both exist and are empty, and the bytes it returns
\* are a full snapshot that reproduces that state on a fresh replica.
C10_InitBothMaps ==
    FirstInit =>
        /\ IsEmptyMapAt(doc[last.h], BLOCKS)
        /\ IsEmptyMapAt(doc[last.h], META)
        /\ last.ret = <<Snapshot(doc[last.h])>>
        /\ ApplyUpdates(Replica, Replica, last.ret).doc.items = doc[last.h].items

\* C10 (amended): init_empty_doc on a handle as constructed leaves a document
\* whose root holds the empty Blocks map and nothing else (Meta does not exist
\* yet; get_all_meta shows no entry), and the bytes it returns are a full
\* snapshot that reproduces that state on a fresh replica.
C10_InitBlocksOnly ==
    FirstInit =>
        /\ IsEmptyMapAt(doc[last.h], BLOCKS)
        /\ DOMAIN RootEntries(doc[last.h]) = {BLOCKS}
        /\ MapGet(doc[last.h], Root, META) = NoItem
        /\ GetAllMetaJson(doc[last.h]) = [k \in {} |-> JNull]
        /\ last.ret = <<Snapshot(doc[last.h])>>
        /\ ApplyUpdates(Replica, Replica, last.ret).ok
        /\ ApplyUpdates(Replica, Replica, last.ret).doc.items = doc[last.h].items
        /\ RootEntries(ApplyUpdates(Replica, Replica, last.ret).doc) = RootEntries(doc[last.h])

\* C10 witness: the first call of a handle was init_empty_doc.
C10_Witness ==
    /\ FirstInit
    /\ hist.calls = 1
    /\ doc[last.h].items # {}

BulkSet == last.op = "set_meta_from_json" /\ last.ok
\* The entries of the object the last set_meta_from_json was given.
BulkEntries == last.arg[1].json.v
BulkKeys == {BulkEntries[n][1] : n \in 1..Len(BulkEntries)}
MetaNow == GetAllMetaJson(doc[last.h])
MetaBefore == GetAllMetaJson(last.before)

IsStringArray(value) ==
    value.t = "Array" /\ \A n \in 1..Len(value.v) : value.v[n].t = "String"
IsInteger(value) == value.t = "Number" /\ value.v.repr \in {"PosInt", "NegInt"}
InI64(value) == value.t = "Number" /\ ~value.v.overI64

\* C11 as stated: after set_meta_from_json(obj), get_all_meta has, for every key of
\* obj whose value is a string, a boolean, an integer or an array of strings,
\* exactly that value, and no key that obj did not supply and Meta did not hold.
C11_BulkReadBack ==
    BulkSet =>
        /\ \A n \in 1..Len(BulkEntries) :
            LET key == BulkEntries[n][1]
                value == BulkEntries[n][2]
            IN  (value.t \in {"String", "Bool"} \/ IsInteger(value) \/ IsStringArray(value))
                    => key \in DOMAIN MetaNow /\ MetaNow[key] = value
        /\ DOMAIN MetaNow \subseteq BulkKeys \cup DOMAIN MetaBefore

\* C11 amended: the same for an integer within the signed 64-bit range (a larger
\* whole number is read back as a float).
C11_BulkReadBackI64 ==
    BulkSet =>
        /\ \A n \in 1..Len(BulkEntries) :
            LET key == BulkEntries[n][1]
                value == BulkEntries[n][2]
            IN  /\ (value.t \in {"String", "Bool"} \/ (IsInteger(value) /\ InI64(value))
                        \/ IsStringArray(value))
                        => key \in DOMAIN MetaNow /\ MetaNow[key] = value
                /\ (IsInteger(value) /\ ~InI64(value))
                        => key \in DOMAIN MetaNow /\ MetaNow[key].t = "Number"
                           /\ MetaNow[key].v.repr = "Float"
        /\ DOMAIN MetaNow \subseteq BulkKeys \cup DOMAIN MetaBefore

\* C11 witness: init_empty_doc, then a bulk set of a string and an array of strings,
\* then get_all_meta, which returns both.
C11_Witness ==
    /\ last.op = "get_all_meta"
    /\ last.prev.op = "set_meta_from_json" /\ last.prev.ok
    /\ MapGet(last.prev.before, Root, BLOCKS) # NoItem
    /\ DOMAIN last.ret[1] = {"k", "t"}
    /\ last.ret[1]["k"] = JString("b")
    /\ last.ret[1]["t"] = JArray(<<JString("a")>>)

IncompleteMove(a) ==
    a.action = "Move" /\ (a.old_path = <<>> \/ a.parent_id = <<>> \/ a.old_parent_id = <<>>)
CompleteMove(a) == a.action = "Move" /\ ~IncompleteMove(a)
\* The Doc the first n actions of the last batch make of the Doc before the call,
\* when none of them fails.
AfterFirst(n) == ApplyActions(last.before, SubSeq(last.arg[1], 1, n), 1)

\* C12: a Move that lacks old_path, parent_id or old_parent_id makes apply_action
\* fail with InvalidOperation and changes no block; a Move that has all three
\* is carried out: the call succeeds and a block that exists gets the parent
\* the Move names.
C12_MoveNeedsLinkage ==
    last.op = "apply_action" =>
        \A n \in 1..Len(last.arg[1]) :
            AfterFirst(n - 1).ok =>
                /\ IncompleteMove(last.arg[1][n]) =>
                        /\ ~last.ok /\ last.err = "InvalidOperation" /\ last.ret = <<>>
                        /\ BlockTree(doc[last.h]) = BlockTree(AfterFirst(n - 1).doc)
                /\ (CompleteMove(last.arg[1][n]) /\ n = Len(last.arg[1])) =>
                        /\ last.ok
                        /\ LET id == last.arg[1][n].id
                           IN  id \in DOMAIN BlockTree(AfterFirst(n - 1).doc) =>
                                   /\ id \in DOMAIN BlockTree(doc[last.h])
                                   /\ BlockTree(doc[last.h])[id].parent_id = last.arg[1][n].parent_id

\* C12 witness: a Move of an existing block without old_parent_id failed and left
\* the block where it was.
C12_Witness ==
    /\ FailedBatch
    /\ Len(last.arg[1]) = 1
    /\ IncompleteMove(last.arg[1][1])
    /\ last.arg[1][1].old_parent_id = <<>>
    /\ last.arg[1][1].parent_id # <<>>
    /\ last.arg[1][1].id \in DOMAIN BlockTree(last.before)
    /\ last.arg[1][1].parent_id[1] \in DOMAIN BlockTree(last.before)
    /\ BlockTree(doc[last.h]) = BlockTree(last.before)

\* The last call was apply_action([first, second]) and first inserted a block
\* the document did not have.
InsertThen(kind) ==
    /\ last.op = "apply_action" /\ Len(last.arg[1]) = 2
    /\ last.arg[1][1].action = "Insert"
    /\ last.arg[1][1].id \notin DOMAIN BlockTree(last.before)
    /\ last.arg[1][2].action = kind
    /\ last.arg[1][2].id = last.arg[1][1].id
\* The last call was apply_action([Update X, Insert X]) on a document without X.
UpdateThenInsert ==
    /\ last.op = "apply_action" /\ Len(last.arg[1]) = 2
    /\ last.arg[1][1].action = "Update"
    /\ last.arg[1][1].id \notin DOMAIN BlockTree(last.before)
    /\ last.arg[1][2].action = "Insert"
    /\ last.arg[1][2].id = last.arg[1][1].id

\* C13: the actions of a batch take effect in list order and each sees what the
\* earlier ones did: [Insert X, Update X] updates the X just inserted, [Insert X,
\* Delete X] removes it, [Insert X, Move X] moves it, and [Update X, Insert X] on a
\* document without X fails at the Update with InvalidOperation and inserts nothing.
C13_BatchOrder ==
    /\ InsertThen("Update") =>
            /\ last.ok
            /\ last.arg[1][1].id \in DOMAIN BlockTree(doc[last.h])
            /\ BlockTree(doc[last.h])[last.arg[1][1].id].content = <<last.arg[1][2].content>>
    /\ InsertThen("Delete") =>
            /\ last.ok
            /\ last.arg[1][1].id \notin DOMAIN BlockTree(doc[last.h])
    /\ (InsertThen("Move") /\ CompleteMove(last.arg[1][2])) =>
            /\ last.ok
            /\ last.arg[1][1].id \in DOMAIN BlockTree(doc[last.h])
            /\ BlockTree(doc[last.h])[last.arg[1][1].id].parent_id = last.arg[1][2].parent_id
    /\ UpdateThenInsert =>
            /\ ~last.ok /\ last.err = "InvalidOperation" /\ last.ret = <<>>
            /\ last.arg[1][1].id \notin DOMAIN BlockTree(doc[last.h])

\* C13 witness: [Insert X, Update X] on a document with another block left X with
\* the content of the Update.
C13_Witness ==
    /\ InsertThen("Update")
    /\ DOMAIN BlockTree(last.before) # {}
    /\ last.arg[1][1].content # last.arg[1][2].content
    /\ BlockTree(doc[last.h])[last.arg[1][1].id].content = <<last.arg[1][2].content>>

Merged == last.op = "merge_updates" /\ last.ok
\* The orders a list can be given in.
Reorderings(s) == {[n \in 1..Len(s) |-> s[p[n]]] : p \in Permutations(1..Len(s))}

\* C14: for a list of valid updates, in whatever order it is given, the update
\* merge_updates returns gives a fresh document the block tree and metadata that
\* applying the listed updates one by one gives it; the call leaves the handle's
\* document as it was and returns the same whatever document the handle holds.
C14_MergeIsPure ==
    Merged =>
        /\ \A s \in Reorderings(last.arg[1]) :
                /\ MergeUpdates(doc[last.h], s).ok
                /\ Loaded(MergeUpdates(doc[last.h], s).ret) = Loaded(last.arg[1])
        /\ Loaded(last.ret) = Loaded(last.arg[1])
        /\ Loaded(last.ret) # <<>>
        /\ doc[last.h] = last.before
        /\ \A g \in Handles : MergeUpdates(doc[g], last.arg[1]).ret = last.ret
        /\ MergeUpdates(Replica, last.arg[1]).ret = last.ret

\* C14 witness: a merge of three updates of two replicas, asked of a handle whose
\* own document is not what the merged update gives.
C14_Witness ==
    /\ Merged
    /\ Len(last.arg[1]) = 3
    /\ Cardinality(ClientsOf(ItemsIn(last.arg[1]))) = 2
    /\ doc[last.h].items # {}
    /\ Loaded(last.ret) # <<DocumentState(doc[last.h])>>
    /\ DOMAIN Loaded(last.ret)[1].blocks # {}
    /\ DOMAIN Loaded(last.ret)[1].meta # {}

\* What Meta holds under key in Doc d (NoItem when Meta or the key is absent).
StoredMeta(d, key) == MapGet(d, MapGet(d, Root, META).id, key)
NoFraction(number) == number.frac = 0
WrittenAsInteger(number) == number.repr \in {"PosInt", "NegInt"}

\* C15 as stated: set_meta_from_json stores a number as an integer whenever it has
\* no fractional part (1.0 and whole numbers above the signed 64-bit range
\* included) and as a float otherwise, and every number is stored under its key.
C15_IntegerIffWhole ==
    BulkSet =>
        \A n \in 1..Len(BulkEntries) :
            LET key == BulkEntries[n][1]
                value == BulkEntries[n][2]
                stored == StoredMeta(doc[last.h], key).val
            IN  value.t = "Number" =>
                    IF NoFraction(value.v) THEN stored.t = "bigint" ELSE stored.t = "number"

\* C15 amended: set_meta_from_json stores a number as an integer exactly when its
\* literal is written as an integer and lies within the signed 64-bit range, and
\* then with that value; any other number (1.0, 1.5, a whole number above the
\* range) is stored as a float; every number is stored under its key.
C15_IntegerIffI64Literal ==
    BulkSet =>
        \A n \in 1..Len(BulkEntries) :
            LET key == BulkEntries[n][1]
                value == BulkEntries[n][2]
                stored == StoredMeta(doc[last.h], key)
            IN  value.t = "Number" =>
                    /\ stored # NoItem
                    /\ IF WrittenAsInteger(value.v) /\ ~value.v.overI64
                       THEN stored.val = AnyBigInt(value.v.int)
                       ELSE /\ stored.val.t = "number"
                            /\ stored.val.v.int = value.v.int
                            /\ stored.val.v.frac = value.v.frac

\* C15 witness: a bulk set whose only entry is a whole number above the signed
\* 64-bit range, on a document whose Meta did not hold the key; it is stored as
\* a float.
C15_Witness ==
    /\ BulkSet
    /\ BulkEntries = <<<<"k", JNumber(PosInt(9, TRUE))>>>>
    /\ StoredMeta(last.before, "k") = NoItem
    /\ StoredMeta(doc[last.h], "k").val.t = "number"

\* The strings among the elements of a JSON array, in order.
RECURSIVE StringsOf(_)
StringsOf(items) ==
    IF items = <<>> THEN <<>>
    ELSE (IF Head(items).t = "String" THEN <<Head(items).v>> ELSE <<>>) \o StringsOf(Tail(items))
\* The single metadata operation that corresponds to an entry whose value is null,
\* an array or an object.
SingleOp(d, key, value) ==
    CASE value.t = "Null" -> RemoveMetaKey(d, key)
      [] value.t = "Array" -> SetMetaStringArray(d, key, StringsOf(value.v))
      [] value.t = "Object" -> SetMetaString(d, key, SerdeToString(value))
\* What get_all_meta shows under key (<<>> when the key is absent).
Shown(d, key) == IF key \in DOMAIN GetAllMetaJson(d) THEN <<GetAllMetaJson(d)[key]>> ELSE <<>>

\* C16: a successful set_meta_from_json leaves under every key of the object what
\* the single operation on that key would leave: nothing for null (absent key
\* or not), for an array a new array item holding the string elements of the
\* input in order with duplicates, for an object a string scalar holding its
\* serialization; the keys it does not name keep their values; and the one
\* diff returned carries all of it.
C16_EntriesAsSingleOps ==
    BulkSet =>
        /\ \A n \in 1..Len(BulkEntries) :
            LET key == BulkEntries[n][1]
                value == BulkEntries[n][2]
                stored == StoredMeta(doc[last.h], key)
            IN  /\ value.t \in {"Null", "Array", "Object"} =>
                        /\ SingleOp(last.before, key, value).ok
                        /\ Shown(doc[last.h], key)
                                = Shown(SingleOp(last.before, key, value).doc, key)
                /\ value.t = "Null" => stored = NoItem
                /\ value.t = "Array" =>
                        /\ stored.val = YArray
                        /\ stored.id \notin Ids(last.before.items)
                        /\ ArrayValues(doc[last.h], stored.id)
                                = [m \in 1..Len(StringsOf(value.v)) |->
                                        AnyString(StringsOf(value.v)[m])]
                /\ value.t = "Object" => stored.val = AnyString(SerdeToString(value))
        /\ \A key \in DOMAIN MetaBefore \ BulkKeys :
                Shown(doc[last.h], key) = Shown(last.before, key)
        /\ Len(last.ret) = 1
        /\ Loaded(<<Snapshot(last.before), last.ret[1]>>) = <<DocumentState(doc[last.h])>>

\* C16 witness: a bulk set gives an array with a non-string element and a repeated
\* string to a key that held an array; the key then holds the three strings.
C16_Witness ==
    /\ BulkSet
    /\ BulkEntries = <<<<"k", JArray(<<JString("b"), JNumber(PosInt(1, FALSE)),
                                      JString("a"), JString("b")>>)>>>>
    /\ Shown(last.before, "k") = <<JArray(<<JString("a")>>)>>
    /\ Shown(doc[last.h], "k") = <<JArray(<<JString("b"), JString("a"), JString("b")>>)>>

\* C16, the other cases: null for an absent key, an array over a scalar, an object.
C16_NullAbsent ==
    BulkSet /\ BulkEntries = <<<<"k", JNull>>>> /\ Shown(last.before, "k") = <<>>
C16_ArrayOverScalar ==
    /\ BulkSet /\ BulkEntries = <<<<"k", JArray(<<JString("a"), JString("b")>>)>>>>
    /\ Shown(last.before, "k") = <<JString("a")>>
    /\ Shown(doc[last.h], "k") = <<JArray(<<JString("a"), JString("b")>>)>>
C16_ObjectAsText ==
    BulkSet /\ Shown(doc[last.h], "k") = <<JString("{\"n\":true,\"s\":\"a\"}")>>
C16_TwoEntries ==
    /\ BulkSet /\ Len(BulkEntries) = 2 /\ BulkEntries[1][2] = JNull
    /\ Shown(last.before, "k") # <<>> /\ DOMAIN MetaNow = {"t"}

RemovedItem == last.op = "remove_meta_array_item" /\ last.ok
\* The elements (items, in order) of the array Meta held under the key of the last
\* call before the call; <<>> when there is no such array.
ArrayBefore ==
    IF StoredMeta(last.before, last.arg[1]).val = YArray
    THEN ArrayItems(last.before, StoredMeta(last.before, last.arg[1]).id)
    ELSE <<>>
ArrayAfter ==
    IF StoredMeta(doc[last.h], last.arg[1]).val = YArray
    THEN ArrayItems(doc[last.h], StoredMeta(doc[last.h], last.arg[1]).id)
    ELSE <<>>
Matches == {n \in 1..Len(ArrayBefore) : ArrayBefore[n].val = AnyString(last.arg[2])}
FirstMatch == CHOOSE n \in Matches : \A m \in Matches : n <= m
\* The key is absent, or holds no array, or the array has no element equal to value.
NothingToRemove == Matches = {}
Without(s, n) == SubSeq(s, 1, n - 1) \o SubSeq(s, n + 1, Len(s))
RemovesFirstMatch ==
    /\ ArrayAfter = Without(ArrayBefore, FirstMatch)
    /\ StoredMeta(doc[last.h], last.arg[1]) = StoredMeta(last.before, last.arg[1])
    /\ doc[last.h].items = last.before.items
    /\ doc[last.h].ds = last.before.ds \cup {ArrayBefore[FirstMatch].id}
    /\ BlockTree(doc[last.h]) = BlockTree(last.before)

\* C17 as stated: when the key is absent, holds a non-array value, or the array has
\* no element equal to value, remove_meta_array_item leaves the whole document
\* (Root, Blocks, Meta and every array) unchanged; otherwise it removes exactly
\* the first element equal to value and keeps the others in their order.
C17_NoOpWholeDocument ==
    RemovedItem =>
        IF NothingToRemove
        THEN /\ RootEntries(doc[last.h]) = RootEntries(last.before)
             /\ SameContent(doc[last.h], last.before)
        ELSE RemovesFirstMatch

\* C17 amended: in those cases remove_meta_array_item leaves the block tree, every
\* Meta entry and every array unchanged, keeps every item of the document, and
\* adds nothing but the empty Meta map when the document has no Meta map;
\* otherwise it removes exactly the first element equal to value and keeps the
\* others in their order.
C17_NoOpButMetaMap ==
    RemovedItem =>
        IF NothingToRemove
        THEN /\ DocumentState(doc[last.h]) = DocumentState(last.before)
             /\ ArrayAfter = ArrayBefore
             /\ doc[last.h].ds = last.before.ds
             /\ last.before.items \subseteq doc[last.h].items
             /\ IF MapGet(last.before, Root, META).val = YMap
                THEN doc[last.h].items = last.before.items
                ELSE /\ doc[last.h].items \ last.before.items
                            = {MapGet(doc[last.h], Root, META)}
                     /\ IsEmptyMapAt(doc[last.h], META)
        ELSE RemovesFirstMatch

\* C17 witness: the value is removed from an array that holds it twice; the second
\* occurrence stays.
C17_Witness ==
    /\ RemovedItem
    /\ Len(ArrayBefore) = 2 /\ Cardinality(Matches) = 2
    /\ ArrayAfter = <<ArrayBefore[2]>>

\* C17, the cases of a call that finds nothing to remove.
C17_KeyAbsent ==
    /\ RemovedItem /\ MapGet(last.before, Root, META).val = YMap
    /\ StoredMeta(last.before, "k") = NoItem
C17_NotAnArray == RemovedItem /\ StoredMeta(last.before, "k").val = AnyString("a")
C17_NotAnElement == RemovedItem /\ Len(ArrayBefore) = 1 /\ NothingToRemove
C17_MiddleKept ==
    /\ RemovedItem /\ Len(ArrayBefore) = 2 /\ Matches = {2}
    /\ ArrayAfter = <<ArrayBefore[1]>>

BulkCall == last.op = "set_meta_from_json"
\* The call returned the error and nothing else, and the Doc is as it was.
FailedWith(call, after, kind) ==
    /\ ~call.ok /\ call.err = kind /\ call.ret = <<>>
    /\ SameContent(after, call.before)
    /\ DocumentState(after) = DocumentState(call.before)

\* C18: set_meta_from_json fails with EncodingError on text that is not JSON and
\* with InvalidOperation on JSON that is not an object; the call returns the
\* error and no diff, and the document is as before the call; on an object it
\* succeeds.
C18_BulkErrors ==
    BulkCall =>
        IF ~last.arg[1].parses THEN FailedWith(last, doc[last.h], "EncodingError")
        ELSE IF last.arg[1].json.t # "Object"
             THEN FailedWith(last, doc[last.h], "InvalidOperation")
        ELSE last.ok /\ Len(last.ret) = 1

\* C18 witness: on a handle whose Meta holds an entry, text that is not JSON is
\* refused, and then a JSON array is refused; the entry is still there.
C18_Witness ==
    /\ BulkCall /\ last.arg[1] = JsonText(JArray(<<JString("a")>>)) /\ ~last.ok
    /\ last.prev.op = "set_meta_from_json" /\ last.prev.arg[1] = BadJson /\ ~last.prev.ok
    /\ last.prev.before = doc[last.h]
    /\ DOMAIN GetAllMetaJson(doc[last.h]) = {"k"}

ReadMeta == last.op = "get_all_meta" /\ last.ok
\* get_all_meta shows a scalar the service stores as the scalar itself, and an
\* array as the sequence of its elements, the strings as strings.
ScalarOrArrayShown(d, stored, shown) ==
    /\ stored.val.t = "string" => shown = JString(stored.val.v)
    /\ stored.val.t = "bool" => shown = JBool(stored.val.v)
    /\ stored.val.t = "number" => shown = JNumber(stored.val.v)
    /\ stored.val.t = "bigint" =>
            /\ shown.t = "Number" /\ WrittenAsInteger(shown.v)
            /\ shown.v.int = stored.val.v
    /\ stored.val = YArray =>
            /\ shown.t = "Array"
            /\ Len(shown.v) = Len(ArrayValues(d, stored.id))
            /\ \A n \in 1..Len(shown.v) :
                    ArrayValues(d, stored.id)[n].t = "string"
                        => shown.v[n] = JString(ArrayValues(d, stored.id)[n].v)
ServiceShapes == {"string", "bool", "number", "bigint", "yarray"}

\* C19 as stated: get_all_meta renders each Meta entry as the scalar itself for a
\* string, integer, float or boolean, as the ordered sequence of strings for an
\* array, and as null for every other stored shape.
C19_OtherShapesNull ==
    ReadMeta =>
        /\ DOMAIN last.ret[1] = DOMAIN GetAllMetaJson(doc[last.h])
        /\ \A key \in DOMAIN last.ret[1] :
            LET stored == StoredMeta(doc[last.h], key)
                shown == last.ret[1][key]
            IN  /\ ScalarOrArrayShown(doc[last.h], stored, shown)
                /\ stored.val.t \notin ServiceShapes => shown = JNull

\* C19 amended: the same for scalars and arrays (an element that is not a string
\* is rendered by these rules too); a nested replicated map is rendered as an
\* object of its entries, a plain array as an array, a plain map as an object,
\* a binary value as the array of its byte values; null is what a stored null
\* and a shared type other than map and array render as.
C19_OtherShapesRendered ==
    ReadMeta =>
        /\ DOMAIN last.ret[1] = DOMAIN GetAllMetaJson(doc[last.h])
        /\ \A key \in DOMAIN last.ret[1] :
            LET stored == StoredMeta(doc[last.h], key)
                shown == last.ret[1][key]
            IN  /\ ScalarOrArrayShown(doc[last.h], stored, shown)
                /\ stored.val = YArray =>
                        \A n \in 1..Len(shown.v) :
                            ArrayValues(doc[last.h], stored.id)[n].t = "bigint"
                                => /\ shown.v[n].t = "Number"
                                   /\ shown.v[n].v.int = ArrayValues(doc[last.h], stored.id)[n].v
                /\ stored.val = YMap =>
                        /\ shown.t = "Object"
                        /\ DOMAIN shown.v = MapKeys(doc[last.h], stored.id)
                        /\ \A k \in DOMAIN shown.v : shown.v[k] # JNull
                /\ stored.val.t = "array" =>
                        /\ shown.t = "Array" /\ Len(shown.v) = Len(stored.val.v)
                        /\ \A n \in 1..Len(shown.v) : shown.v[n] # JNull
                /\ stored.val.t = "map" =>
                        /\ shown.t = "Object" /\ DOMAIN shown.v = DOMAIN stored.val.v
                        /\ \A k \in DOMAIN shown.v : shown.v[k] # JNull
                /\ stored.val.t = "buffer" =>
                        /\ shown.t = "Array" /\ Len(shown.v) = Len(stored.val.v)
                        /\ \A n \in 1..Len(shown.v) :
                                shown.v[n] = JNumber(PosInt(stored.val.v[n], FALSE))
                /\ stored.val.t \in {"null", "undefined", "ytext"} => shown = JNull

\* C19 witness: the handle loaded the update of another client that put a plain map
\* under "k", wrote a string of its own under "t", and get_all_meta shows both.
C19_Witness ==
    /\ ReadMeta
    /\ hist.replaced[last.h]
    /\ StoredMeta(doc[last.h], "k").val.t = "map"
    /\ DOMAIN last.ret[1] = {"k", "t"}
    /\ last.ret[1]["k"] = JObject([k \in {"n"} |-> JBool(TRUE)])
    /\ last.ret[1]["t"] = JString("a")

\* C19, other shapes another client wrote, as get_all_meta shows them.
C19_NestedMap ==
    /\ ReadMeta /\ StoredMeta(doc[last.h], "k").val = YMap
    /\ last.ret[1]["k"].v["n"] = JString("a")
    /\ last.ret[1]["k"].v["m"] = JArray(<<JBool(TRUE)>>)
C19_Binary ==
    /\ ReadMeta /\ StoredMeta(doc[last.h], "k").val.t = "buffer"
    /\ last.ret[1]["k"] = JArray(<<JNumber(PosInt(1, FALSE)), JNumber(PosInt(2, FALSE))>>)
C19_PlainArray ==
    /\ ReadMeta /\ StoredMeta(doc[last.h], "k").val.t = "array"
    /\ last.ret[1]["k"] = JArray(<<JString("a"), JNumber(PosInt(7, FALSE))>>)
C19_MixedArray ==
    /\ ReadMeta /\ StoredMeta(doc[last.h], "k").val = YArray
    /\ last.ret[1]["k"] = JArray(<<JString("a"), JNumber(PosInt(7, FALSE))>>)
C19_NullShown ==
    /\ ReadMeta /\ StoredMeta(doc[last.h], "k").val.t \in {"null", "ytext"}
    /\ last.ret[1]["k"] = JNull
C19_OwnArray ==
    /\ ReadMeta /\ StoredMeta(doc[last.h], "t").val = YArray
    /\ last.ret[1]["t"] = JArray(<<JString("a"), JString("b")>>)

ReadOps == {"encode_full_state", "get_all_meta", "get_document_state"}
\* Doc d shows and encodes what Doc e does.
ReadsAlike(d, e) ==
    /\ d = e
    /\ BlockTree(d) = BlockTree(e)
    /\ GetAllMetaJson(d) = GetAllMetaJson(e)
    /\ EncodeFullState(d).ret = EncodeFullState(e).ret

\* C20: encode_full_state, get_all_meta and get_document_state succeed and leave
\* the Doc as it was: the block tree, the metadata and what encode_full_state
\* returns afterwards are those of the Doc before the call, and before the read
\* that preceded it, whichever reads they were.
C20_ReadsDoNotMutate ==
    last.op \in ReadOps =>
        /\ last.ok
        /\ ReadsAlike(doc[last.h], last.before)
        /\ last.prev.op \in ReadOps => ReadsAlike(doc[last.h], last.prev.before)
        /\ last.op = "encode_full_state" => last.ret = <<Snapshot(last.before)>>
        /\ last.op = "get_all_meta" => last.ret = <<GetAllMetaJson(last.before)>>
        /\ last.op = "get_document_state" => last.ret = <<DocumentState(last.before)>>

\* C20 witness: a document that holds a Meta entry is read twice, by get_all_meta
\* and then by encode_full_state.
C20_Witness ==
    /\ last.op = "encode_full_state" /\ last.prev.op = "get_all_meta"
    /\ last.prev.ret[1] = GetAllMetaJson(doc[last.h])
    /\ DOMAIN GetAllMetaJson(doc[last.h]) # {}

\* C20, the third read: a document that holds a block is read by
\* get_document_state and then by get_all_meta.
C20_BlocksRead ==
    /\ last.op = "get_all_meta" /\ last.prev.op = "get_document_state"
    /\ DOMAIN BlockTree(doc[last.h]) # {}

\* The items of the handle's Doc that no update the handle returned carries.
Unreturned(h) == doc[h].items \ ItemsIn(hist.log[h])
\* The updates the handle had returned before the last call.
EarlierLog ==
    IF last.ok /\ Mutating(last.op)
    THEN SubSeq(hist.log[last.h], 1, Len(hist.log[last.h]) - 1)
    ELSE hist.log[last.h]
UnreturnedBefore == last.before.items \ ItemsIn(EarlierLog)
\* What a replica fed with the updates the handle returned holds.
FedReplica(h) == ApplyUpdates(Replica, Replica, hist.log[h]).doc
\* The last call is a batch that failed after actions that wrote to the Doc.
FailedAfterWrites ==
    /\ FailedBatch
    /\ FirstFailure(last.before, last.arg[1], 1) >= 2
    /\ doc[last.h].items # last.before.items
\* ... and so is the call before the last, which is a successful mutating call.
CallAfterFailure ==
    /\ last.ok /\ Mutating(last.op)
    /\ last.prev.op = "apply_action" /\ ~last.prev.ok
    /\ FirstFailure(last.prev.before, last.prev.arg[1], 1) >= 2
    /\ last.before.items # last.prev.before.items

C21_InitCarriesLost ==
    /\ CallAfterFailure /\ last.op = "init_empty_doc"
    /\ UnreturnedBefore # {} /\ UnreturnedBefore \subseteq last.ret[1].items
C21_SameViewAfterDelete ==
    /\ CallAfterFailure /\ last.op = "apply_action"
    /\ Unreturned(last.h) # {}
    /\ Loaded(hist.log[last.h]) = <<DocumentState(doc[last.h])>>

\* The last two calls were push_meta_array_item(k, a) and push_meta_array_item(k, b),
\* a # b, of two replicas that held the same document.
PushPair ==
    /\ ConcurrentPair
    /\ last.op = "push_meta_array_item" /\ last.prev.op = "push_meta_array_item"
    /\ last.arg[1] = last.prev.arg[1] /\ last.arg[2] # last.prev.arg[2]
\* What replica h holds once the diff of the other replica is merged into it.
WithDiff(h, diff) == ApplyUpdates(Replica, Replica, <<Snapshot(doc[h]), diff>>)
\* The elements get_all_meta shows for the array at key (<<>> when it shows none).
ShownArray(d, key) ==
    IF Shown(d, key) # <<>> /\ Shown(d, key)[1].t = "Array" THEN Shown(d, key)[1].v ELSE <<>>
Elements(s) == {s[n] : n \in 1..Len(s)}

\* C22: after concurrent push_meta_array_item(k, a) and push_meta_array_item(k, b),
\* a # b, and the merge of each diff into the other replica, the two replicas
\* show the same metadata; when k was absent from the ancestor each replica had
\* made an array item of its own and the array at k holds exactly one of a and
\* b; when k held an array in the ancestor the array at k holds a, b and every
\* element it had.
C22_ConcurrentPush ==
    PushPair =>
        LET key == last.arg[1]
            a == last.prev.arg[2]
            b == last.arg[2]
            first == WithDiff(last.prev.h, last.ret[1])
            second == WithDiff(last.h, last.prev.ret[1])
            merged == ShownArray(first.doc, key)
        IN  /\ first.ok /\ second.ok
            /\ DocumentState(first.doc) = DocumentState(second.doc)
            /\ Shown(first.doc, key) # <<>> /\ Shown(first.doc, key)[1].t = "Array"
            /\ StoredMeta(last.before, key) = NoItem =>
                    /\ StoredMeta(doc[last.h], key).val = YArray
                    /\ StoredMeta(doc[last.prev.h], key).val = YArray
                    /\ StoredMeta(doc[last.h], key).id # StoredMeta(doc[last.prev.h], key).id
                    /\ ShownArray(doc[last.prev.h], key) = <<JString(a)>>
                    /\ ShownArray(doc[last.h], key) = <<JString(b)>>
                    /\ merged \in {<<JString(a)>>, <<JString(b)>>}
            /\ StoredMeta(last.before, key).val = YArray =>
                    /\ {JString(a), JString(b)} \subseteq Elements(merged)
                    /\ Elements(ShownArray(last.before, key)) \subseteq Elements(merged)
                    /\ Len(merged) = Cardinality(Elements(ShownArray(last.before, key))
                                                    \cup {JString(a), JString(b)})

\* C22 witness: the ancestor holds Meta without key k, both replicas push, and the
\* merged array holds one element.
C22_Witness ==
    /\ PushPair
    /\ MapGet(last.before, Root, META).val = YMap
    /\ StoredMeta(last.before, "k") = NoItem
    /\ Len(ShownArray(WithDiff(last.h, last.prev.ret[1]).doc, "k")) = 1

\* C22, the other case: the ancestor holds the array ["c"] at k, and the merged
\* array holds c, a and b.
C22_BothKept ==
    /\ PushPair
    /\ ShownArray(last.before, "k") = <<JString("c")>>
    /\ Elements(ShownArray(WithDiff(last.h, last.prev.ret[1]).doc, "k"))
            = {JString("a"), JString("b"), JString("c")}

====
